---- MODULE Spec2Model ----
(***************************************************************************)
(* Model of the portabletext package: Decode / Encode with the typed/raw   *)
(* dual representation of Node, Span and MarkDef.                          *)
(*                                                                         *)
(* A JSON text is modelled as a JSON value tree ("wire" value) whose       *)
(* strings are sequences of wire symbols: a symbol is a run of ordinary    *)
(* characters, a literal '<' '>' '&', or an escape sequence (the six-byte  *)
(* unicode escape of '<', the two-byte escape of the quote).  Key order    *)
(* inside objects is not represented (objects are functions from key to    *)
(* value).  Values held in memory by the Go program                        *)
(* (map[string]any, []any, string, json.Number, bool, nil) use the same    *)
(* record shape, with strings holding decoded symbols.                     *)
(***************************************************************************)
EXTENDS Integers, Sequences, FiniteSets, TLC

VARIABLES
    input,      \* the JSON text handed to the first Decode
    src,        \* the JSON text the running Decode reads
    pc,         \* position of the pipeline
    round,      \* 1: Decode(input), 2: Decode(Encode(doc))
    i,          \* Decode's loop index
    doc,        \* Decode's local "doc" / its returned Document
    err,        \* Decode's returned error
    examined,   \* indices of the elements Decode handed to parseNode
    doc1,       \* the Document returned by the first Decode
    out,        \* the bytes written by Encode
    opts,       \* the ValidationOptions of the running validation
    errs,       \* ValidateWithOptions's local "errs" / its returned list
    errs0,      \* the list returned by the earlier Validate(doc)
    fn,         \* the callback handed to Walk, Filter or Transform
    calls,      \* the invocations of the callback made so far
    blockCount, \* WalkWithContext's local "blockCount"
    res,        \* the value returned by Walk, Filter or Transform
    heap,       \* the memory cells the Documents in use are made of
    refs        \* the addresses at which the Documents in use start

vars == <<input, src, pc, round, i, doc, err, examined, doc1, out,
          opts, errs, errs0, fn, calls, blockCount, res, heap, refs>>

\* the variables of validation, of traversal, of both, and of Decode / Encode
mem == <<heap, refs>>
val == <<opts, errs, errs0>>
trav == <<fn, calls, blockCount, res>>
aux == <<opts, errs, errs0, fn, calls, blockCount, res>>
codec == <<input, src, err, examined, out>>

-----------------------------------------------------------------------------
(* JSON values *)

JV(t, s, a, o) == [t |-> t, s |-> s, a |-> a, o |-> o]
JNull == JV("null", <<>>, <<>>, <<>>)
JBool(b) == JV("bool", <<b>>, <<>>, <<>>)
JNum(text) == JV("num", <<text>>, <<>>, <<>>)
JStr(s) == JV("str", s, <<>>, <<>>)
JArr(a) == JV("arr", <<>>, a, <<>>)
JObj(o) == JV("obj", <<>>, <<>>, o)

MapSet(m, k, v) == [x \in (DOMAIN m) \cup {k} |-> IF x = k THEN v ELSE m[x]]

-----------------------------------------------------------------------------
(* encoding/json: string escaping, decoding into any, json.Marshal of any *)

\* the decoder's unquoting of one symbol of a JSON string
UnescapeSym(c) ==
    CASE c = "\\u003c" -> "<"
      [] c = "\\u003e" -> ">"
      [] c = "\\u0026" -> "&"
      [] c = "\\\"" -> "\""
      [] OTHER -> c

\* the encoder's quoting of one symbol of a Go string
EscapeSym(c, escapeHTML) ==
    CASE c = "\"" -> "\\\""
      [] c = "<" /\ escapeHTML -> "\\u003c"
      [] c = ">" /\ escapeHTML -> "\\u003e"
      [] c = "&" /\ escapeHTML -> "\\u0026"
      [] OTHER -> c

Unquote(s) == [n \in 1..Len(s) |-> UnescapeSym(s[n])]
Quote(s, escapeHTML) == [n \in 1..Len(s) |-> EscapeSym(s[n], escapeHTML)]

\* Decoder.Decode into an interface value, with UseNumber (numbers keep their text)
RECURSIVE Unmarshal(_)
Unmarshal(w) ==
    CASE w.t = "str" -> JStr(Unquote(w.s))
      [] w.t = "arr" -> JArr([n \in 1..Len(w.a) |-> Unmarshal(w.a[n])])
      [] w.t = "obj" -> JObj([k \in DOMAIN w.o |-> Unmarshal(w.o[k])])
      [] OTHER -> w

\* json.Marshal of an interface value
RECURSIVE MarshalAny(_, _)
MarshalAny(v, escapeHTML) ==
    CASE v.t = "str" -> JStr(Quote(v.s, escapeHTML))
      [] v.t = "arr" -> JArr([n \in 1..Len(v.a) |-> MarshalAny(v.a[n], escapeHTML)])
      [] v.t = "obj" -> JObj([k \in DOMAIN v.o |-> MarshalAny(v.o[k], escapeHTML)])
      [] OTHER -> v

\* compact(): copies the output of a MarshalJSON method into the encoder's
\* buffer, escaping literal '<' '>' '&' only when escapeHTML is set
RECURSIVE Compact(_, _)
Compact(w, escapeHTML) ==
    CASE w.t = "str" ->
            JStr([n \in 1..Len(w.s) |->
                    IF w.s[n] \in {"<", ">", "&"} THEN EscapeSym(w.s[n], escapeHTML)
                    ELSE w.s[n]])
      [] w.t = "arr" -> JArr([n \in 1..Len(w.a) |-> Compact(w.a[n], escapeHTML)])
      [] w.t = "obj" -> JObj([k \in DOMAIN w.o |-> Compact(w.o[k], escapeHTML)])
      [] OTHER -> w

\* json.Marshal escapes HTML characters; Encode's encoder has SetEscapeHTML(false)
MarshalEscapeHTML == TRUE
EncoderEscapeHTML == FALSE

\* bound on the magnitude of the integers the model parses and prints
MaxInt == 3

\* json.Number.Int64: strconv.ParseInt of the number's text, base 10
Int64(text) ==
    IF text = "-0" THEN [ok |-> TRUE, v |-> 0]
    ELSE IF \E n \in (-MaxInt)..MaxInt : ToString(n) = text
         THEN [ok |-> TRUE, v |-> CHOOSE n \in (-MaxInt)..MaxInt : ToString(n) = text]
         ELSE [ok |-> FALSE, v |-> 0]

\* the encoder's output for an int
FormatInt(n) == ToString(n)

-----------------------------------------------------------------------------
(* Entity model *)

NilStr == [nil |-> TRUE, v |-> <<>>]
PtrStr(s) == [nil |-> FALSE, v |-> s]
NilInt == [nil |-> TRUE, v |-> 0]
PtrInt(n) == [nil |-> FALSE, v |-> n]
NilSlice == [nil |-> TRUE, v |-> <<>>]
Slice(q) == [nil |-> FALSE, v |-> q]

\* Node{}, Span{}, MarkDef{} with Raw already made
Node == [Type |-> <<>>, Key |-> <<>>, Style |-> NilStr, Children |-> NilSlice,
         MarkDefs |-> NilSlice, ListItem |-> NilStr, Level |-> NilInt, Raw |-> <<>>]
Span == [Type |-> <<>>, Text |-> NilStr, Marks |-> NilSlice, Raw |-> <<>>]
MarkDef == [Key |-> <<>>, Type |-> <<>>, Raw |-> <<>>]

\* Document(nil)
NilDocument == NilSlice

-----------------------------------------------------------------------------
(* Errors *)

ErrMissingType == "ErrMissingType"
ErrInvalidType == "ErrInvalidType"
ErrExpectedObject == "ErrExpectedObject"
ErrExpectedArray == "ErrExpectedArray"
ErrInvalidMarks == "ErrInvalidMarks"
ErrInvalidNumber == "ErrInvalidNumber"
ErrUnexpectedToken == "ErrUnexpectedToken"
\* errors of encoding/json and io that Decode passes on
UnmarshalTypeError == "json.UnmarshalTypeError"
EOF == "io.EOF"

\* a path is the sequence of its segments: <<"[2]", ".children", "[1]", ".marks">>
NoError == [Op |-> "", Path |-> <<>>, Err |-> "nil"]
wrap(op, path, e) == [Op |-> op, Path |-> path, Err |-> e]

Ok(v) == [ok |-> TRUE, val |-> v, err |-> NoError]
Fail(zero, e) == [ok |-> FALSE, val |-> zero, err |-> e]

\* fmt.Sprintf("%s[%d]", path, n) and path + ".name"
Index(path, n) == Append(path, "[" \o ToString(n) \o "]")
Field(path, name) == Append(path, "." \o name)

\* mutant: the empty string passes the discriminator check
typeInvalidNoEmpty(t) == t.t # "str"

\* the discriminator check: not a string, or the empty string
typeInvalid(t) == t.t # "str" \/ t.s = <<>>

\* mutant: an explicit null is dropped instead of kept in Raw
rawNullDropped(raw, k) == raw

\* "Raw[k] = nil // preserve explicit null"
rawNull(raw, k) == MapSet(raw, k, JNull)

-----------------------------------------------------------------------------
(* Parsing (path aware) *)

decodeObjectUseNumber(b) ==
    IF b.t = "obj" THEN Ok(Unmarshal(b).o)
    ELSE IF b.t = "null" THEN Fail(<<>>, ErrExpectedObject)
    ELSE Fail(<<>>, UnmarshalTypeError)

\* mutant: a wrongly shaped marks falls back to Raw like text does
parseMarksDemoted(s, k, v, path) ==
    IF v.t # "arr" \/ \E n \in 1..Len(v.a) : v.a[n].t # "str"
    THEN Ok([s EXCEPT !.Raw = MapSet(s.Raw, k, v)])
    ELSE Ok([s EXCEPT !.Marks = Slice([n \in 1..Len(v.a) |-> v.a[n].s])])

\* the non-null part of parseSpan's case "marks"
parseMarks(s, k, v, path) ==
    IF v.t # "arr" THEN Fail(Span, wrap("span", Field(path, "marks"), ErrInvalidMarks))
    ELSE IF \E n \in 1..Len(v.a) : v.a[n].t # "str"
         THEN Fail(Span, wrap("span", Field(path, "marks"), ErrInvalidMarks))
         ELSE Ok([s EXCEPT !.Marks = Slice([n \in 1..Len(v.a) |-> v.a[n].s])])

\* one iteration of parseSpan's "for k, v := range obj"
parseSpanField(s, k, v, path) ==
    CASE k = "_type" -> Ok(s)
      [] k = "text" ->
            IF v.t = "null" THEN Ok([s EXCEPT !.Raw = rawNull(s.Raw, k)])
            ELSE IF v.t = "str" THEN Ok([s EXCEPT !.Text = PtrStr(v.s)])
            ELSE Ok([s EXCEPT !.Raw = MapSet(s.Raw, k, v)])
      [] k = "marks" ->
            IF v.t = "null" THEN Ok([s EXCEPT !.Raw = rawNull(s.Raw, k)])
            ELSE parseMarks(s, k, v, path)
      [] OTHER -> Ok([s EXCEPT !.Raw = MapSet(s.Raw, k, v)])

\* the range loop of parseSpan: Go iterates a map in an unspecified order
RECURSIVE parseSpanLoop(_, _, _, _)
parseSpanLoop(s, obj, keys, path) ==
    IF keys = {} THEN {Ok(s)}
    ELSE UNION { LET r == parseSpanField(s, k, obj[k], path)
                 IN  IF r.ok THEN parseSpanLoop(r.val, obj, keys \ {k}, path) ELSE {r}
                 : k \in keys }

parseSpan(b, path) ==
    LET d == decodeObjectUseNumber(b)
        obj == d.val
    IN  IF ~d.ok THEN {Fail(Span, wrap("span", path, d.err))}
        ELSE IF "_type" \notin DOMAIN obj THEN {Fail(Span, wrap("span", path, ErrMissingType))}
        ELSE IF typeInvalid(obj["_type"])
             THEN {Fail(Span, wrap("span", path, ErrInvalidType))}
        ELSE parseSpanLoop([Span EXCEPT !.Type = obj["_type"].s], obj, DOMAIN obj, path)

RECURSIVE parseSpanArrayLoop(_, _, _, _)
parseSpanArrayLoop(arr, n, acc, path) ==
    IF n > Len(arr) THEN {Ok(Slice(acc))}
    ELSE UNION { IF r.ok THEN parseSpanArrayLoop(arr, n + 1, Append(acc, r.val), path)
                 ELSE {Fail(NilSlice, r.err)}
                 : r \in parseSpan(MarshalAny(arr[n], MarshalEscapeHTML), Index(path, n - 1)) }

\* mutant: a span's error is reported again by the node, at the path of children
parseSpanArrayRewrapped(v, path) ==
    IF v.t # "arr" THEN {Fail(NilSlice, wrap("node", path, ErrExpectedArray))}
    ELSE { IF r.ok THEN r ELSE Fail(NilSlice, wrap("node", path, r.err.Err))
           : r \in parseSpanArrayLoop(v.a, 1, <<>>, path) }

parseSpanArray(v, path) ==
    IF v.t # "arr" THEN {Fail(NilSlice, wrap("node", path, ErrExpectedArray))}
    ELSE IF Len(v.a) = 0 THEN {Ok(Slice(<<>>))}
    ELSE parseSpanArrayLoop(v.a, 1, <<>>, path)

\* mutant: the range loop of parseMarkDef does not skip _key
markDefRawKeysAll(obj) == {k \in DOMAIN obj : k # "_type"}

\* the keys parseMarkDef stores in Raw: _key when null or not a string, and
\* every key its range loop does not skip
markDefRawKeys(obj) ==
    {k \in DOMAIN obj : k \notin {"_type", "_key"} \/ (k = "_key" /\ obj["_key"].t # "str")}

parseMarkDef(b, path) ==
    LET d == decodeObjectUseNumber(b)
        obj == d.val
    IN  IF ~d.ok THEN Fail(MarkDef, wrap("markDef", path, d.err))
        ELSE IF "_type" \notin DOMAIN obj THEN Fail(MarkDef, wrap("markDef", path, ErrMissingType))
        ELSE IF typeInvalid(obj["_type"])
             THEN Fail(MarkDef, wrap("markDef", path, ErrInvalidType))
        ELSE LET rawKeys == markDefRawKeys(obj)
             IN  Ok([Key |-> IF "_key" \in DOMAIN obj /\ obj["_key"].t = "str"
                             THEN obj["_key"].s ELSE <<>>,
                     Type |-> obj["_type"].s,
                     Raw |-> [k \in rawKeys |-> obj[k]]])

RECURSIVE parseMarkDefArrayLoop(_, _, _, _)
parseMarkDefArrayLoop(arr, n, acc, path) ==
    IF n > Len(arr) THEN Ok(Slice(acc))
    ELSE LET r == parseMarkDef(MarshalAny(arr[n], MarshalEscapeHTML), Index(path, n - 1))
         IN  IF r.ok THEN parseMarkDefArrayLoop(arr, n + 1, Append(acc, r.val), path)
             ELSE Fail(NilSlice, r.err)

\* mutant: a markDefs that is no array is passed over
parseMarkDefArrayIgnoring(v, path) ==
    IF v.t # "arr" THEN Ok(NilSlice)
    ELSE IF Len(v.a) = 0 THEN Ok(Slice(<<>>))
    ELSE parseMarkDefArrayLoop(v.a, 1, <<>>, path)

parseMarkDefArray(v, path) ==
    IF v.t # "arr" THEN Fail(NilSlice, wrap("node", path, ErrExpectedArray))
    ELSE IF Len(v.a) = 0 THEN Ok(Slice(<<>>))
    ELSE parseMarkDefArrayLoop(v.a, 1, <<>>, path)

\* mutant: a number that is no integer falls back to Raw
parseLevelDemoted(n, k, v, path) ==
    IF v.t = "num" /\ Int64(v.s[1]).ok
    THEN Ok([n EXCEPT !.Level = PtrInt(Int64(v.s[1]).v)])
    ELSE Ok([n EXCEPT !.Raw = MapSet(n.Raw, k, v)])

\* mutant: a level that is no JSON number is rejected like an unparseable one
parseLevelStrict(n, k, v, path) ==
    IF v.t = "num" /\ Int64(v.s[1]).ok
    THEN Ok([n EXCEPT !.Level = PtrInt(Int64(v.s[1]).v)])
    ELSE Fail(Node, wrap("node", Field(path, "level"), ErrInvalidNumber))

\* the non-null part of parseNode's case "level": "switch x := v.(type)"
parseLevel(n, k, v, path) ==
    IF v.t = "num"
    THEN LET iv == Int64(v.s[1])
         IN  IF ~iv.ok THEN Fail(Node, wrap("node", Field(path, "level"), ErrInvalidNumber))
             ELSE Ok([n EXCEPT !.Level = PtrInt(iv.v)])
    ELSE Ok([n EXCEPT !.Raw = MapSet(n.Raw, k, v)])

\* one iteration of parseNode's "for k, v := range obj"; the children case
\* yields one result per iteration order of the spans' own fields
parseNodeField(n, k, v, path) ==
    CASE k = "_type" -> {Ok(n)}
      [] k = "_key" ->
            IF v.t = "null" THEN {Ok([n EXCEPT !.Raw = rawNull(n.Raw, k)])}
            ELSE IF v.t = "str" THEN {Ok([n EXCEPT !.Key = v.s])}
            ELSE {Ok([n EXCEPT !.Raw = MapSet(n.Raw, k, v)])}
      [] k = "style" ->
            IF v.t = "null" THEN {Ok([n EXCEPT !.Raw = rawNull(n.Raw, k)])}
            ELSE IF v.t = "str" THEN {Ok([n EXCEPT !.Style = PtrStr(v.s)])}
            ELSE {Ok([n EXCEPT !.Raw = MapSet(n.Raw, k, v)])}
      [] k = "children" ->
            IF v.t = "null" THEN {Ok([n EXCEPT !.Raw = rawNull(n.Raw, k)])}
            ELSE { IF r.ok THEN Ok([n EXCEPT !.Children = r.val]) ELSE Fail(Node, r.err)
                   : r \in parseSpanArray(v, Field(path, "children")) }
      [] k = "markDefs" ->
            IF v.t = "null" THEN {Ok([n EXCEPT !.Raw = rawNull(n.Raw, k)])}
            ELSE LET r == parseMarkDefArray(v, Field(path, "markDefs"))
                 IN  {IF r.ok THEN Ok([n EXCEPT !.MarkDefs = r.val]) ELSE Fail(Node, r.err)}
      [] k = "listItem" ->
            IF v.t = "null" THEN {Ok([n EXCEPT !.Raw = rawNull(n.Raw, k)])}
            ELSE IF v.t = "str" THEN {Ok([n EXCEPT !.ListItem = PtrStr(v.s)])}
            ELSE {Ok([n EXCEPT !.Raw = MapSet(n.Raw, k, v)])}
      [] k = "level" ->
            IF v.t = "null" THEN {Ok([n EXCEPT !.Raw = rawNull(n.Raw, k)])}
            ELSE {parseLevel(n, k, v, path)}
      [] OTHER -> {Ok([n EXCEPT !.Raw = MapSet(n.Raw, k, v)])}

\* the range loop of parseNode: Go iterates a map in an unspecified order
RECURSIVE parseNodeLoop(_, _, _, _)
parseNodeLoop(n, obj, keys, path) ==
    IF keys = {} THEN {Ok(n)}
    ELSE UNION { UNION { IF r.ok THEN parseNodeLoop(r.val, obj, keys \ {k}, path) ELSE {r}
                         : r \in parseNodeField(n, k, obj[k], path) }
                 : k \in keys }

parseNode(b, path) ==
    LET d == decodeObjectUseNumber(b)
        obj == d.val
    IN  IF ~d.ok THEN {Fail(Node, wrap("node", path, d.err))}
        ELSE IF "_type" \notin DOMAIN obj THEN {Fail(Node, wrap("node", path, ErrMissingType))}
        ELSE IF typeInvalid(obj["_type"])
             THEN {Fail(Node, wrap("node", path, ErrInvalidType))}
        ELSE parseNodeLoop([Node EXCEPT !.Type = obj["_type"].s], obj, DOMAIN obj, path)

-----------------------------------------------------------------------------
(* JSON marshaling (re-emits Raw + known fields) *)

MarkDefMarshalJSON(md) ==
    LET keys == (DOMAIN md.Raw) \cup {"_type"} \cup (IF md.Key # <<>> THEN {"_key"} ELSE {})
    IN  JObj([k \in keys |->
                IF k = "_type" THEN JStr(Quote(md.Type, MarshalEscapeHTML))
                ELSE IF k = "_key" /\ md.Key # <<>> THEN JStr(Quote(md.Key, MarshalEscapeHTML))
                ELSE MarshalAny(md.Raw[k], MarshalEscapeHTML)])

SpanMarshalJSON(s) ==
    LET keys == (DOMAIN s.Raw) \cup {"_type"}
                \cup (IF ~s.Text.nil THEN {"text"} ELSE {})
                \cup (IF ~s.Marks.nil THEN {"marks"} ELSE {})
    IN  JObj([k \in keys |->
                IF k = "_type" THEN JStr(Quote(s.Type, MarshalEscapeHTML))
                ELSE IF k = "text" /\ ~s.Text.nil THEN JStr(Quote(s.Text.v, MarshalEscapeHTML))
                ELSE IF k = "marks" /\ ~s.Marks.nil
                     THEN JArr([n \in 1..Len(s.Marks.v) |->
                                    JStr(Quote(s.Marks.v[n], MarshalEscapeHTML))])
                ELSE MarshalAny(s.Raw[k], MarshalEscapeHTML)])

\* mutant: the Raw entries are copied after the typed fields and win
NodeMarshalJSONRawWins(n) ==
    LET keys == (DOMAIN n.Raw) \cup {"_type"}
                \cup (IF n.Key # <<>> THEN {"_key"} ELSE {})
                \cup (IF ~n.Style.nil THEN {"style"} ELSE {})
                \cup (IF ~n.Children.nil THEN {"children"} ELSE {})
                \cup (IF ~n.MarkDefs.nil THEN {"markDefs"} ELSE {})
                \cup (IF ~n.ListItem.nil THEN {"listItem"} ELSE {})
                \cup (IF ~n.Level.nil THEN {"level"} ELSE {})
    IN  JObj([k \in keys |->
                IF k \in DOMAIN n.Raw THEN MarshalAny(n.Raw[k], MarshalEscapeHTML)
                ELSE IF k = "_type" THEN JStr(Quote(n.Type, MarshalEscapeHTML))
                ELSE IF k = "_key" THEN JStr(Quote(n.Key, MarshalEscapeHTML))
                ELSE IF k = "style" THEN JStr(Quote(n.Style.v, MarshalEscapeHTML))
                ELSE IF k = "children"
                     THEN JArr([j \in 1..Len(n.Children.v) |->
                                    Compact(SpanMarshalJSON(n.Children.v[j]), MarshalEscapeHTML)])
                ELSE IF k = "markDefs"
                     THEN JArr([j \in 1..Len(n.MarkDefs.v) |->
                                    Compact(MarkDefMarshalJSON(n.MarkDefs.v[j]), MarshalEscapeHTML)])
                ELSE IF k = "listItem" THEN JStr(Quote(n.ListItem.v, MarshalEscapeHTML))
                ELSE JNum(FormatInt(n.Level.v))])

NodeMarshalJSON(n) ==
    LET keys == (DOMAIN n.Raw) \cup {"_type"}
                \cup (IF n.Key # <<>> THEN {"_key"} ELSE {})
                \cup (IF ~n.Style.nil THEN {"style"} ELSE {})
                \cup (IF ~n.Children.nil THEN {"children"} ELSE {})
                \cup (IF ~n.MarkDefs.nil THEN {"markDefs"} ELSE {})
                \cup (IF ~n.ListItem.nil THEN {"listItem"} ELSE {})
                \cup (IF ~n.Level.nil THEN {"level"} ELSE {})
    IN  JObj([k \in keys |->
                IF k = "_type" THEN JStr(Quote(n.Type, MarshalEscapeHTML))
                ELSE IF k = "_key" /\ n.Key # <<>> THEN JStr(Quote(n.Key, MarshalEscapeHTML))
                ELSE IF k = "style" /\ ~n.Style.nil THEN JStr(Quote(n.Style.v, MarshalEscapeHTML))
                ELSE IF k = "children" /\ ~n.Children.nil
                     THEN JArr([j \in 1..Len(n.Children.v) |->
                                    Compact(SpanMarshalJSON(n.Children.v[j]), MarshalEscapeHTML)])
                ELSE IF k = "markDefs" /\ ~n.MarkDefs.nil
                     THEN JArr([j \in 1..Len(n.MarkDefs.v) |->
                                    Compact(MarkDefMarshalJSON(n.MarkDefs.v[j]), MarshalEscapeHTML)])
                ELSE IF k = "listItem" /\ ~n.ListItem.nil
                     THEN JStr(Quote(n.ListItem.v, MarshalEscapeHTML))
                ELSE IF k = "level" /\ ~n.Level.nil THEN JNum(FormatInt(n.Level.v))
                ELSE MarshalAny(n.Raw[k], MarshalEscapeHTML)])

\* a JSON text: its top-level framing and, for an array, its elements
Text(top, elems) == [top |-> top, elems |-> elems]

\* Encode: a nil Document is written as null, any other as an array whose
\* elements are the compacted outputs of Node.MarshalJSON
Encode(d) ==
    IF d.nil THEN Text("null", <<>>)
    ELSE Text("array", [n \in 1..Len(d.v) |-> Compact(NodeMarshalJSON(d.v[n]), EncoderEscapeHTML)])

-----------------------------------------------------------------------------
(* Helper functions: building a Document in the program *)

NilMap == [nil |-> TRUE, v |-> <<>>]
Map(m) == [nil |-> FALSE, v |-> m]

NewBlock(style) ==
    [Node EXCEPT !.Type = <<"block">>, !.Style = PtrStr(style),
                 !.Children = Slice(<<>>), !.MarkDefs = Slice(<<>>)]

NewNode(nodeType) == [Node EXCEPT !.Type = nodeType]

\* marks is the variadic parameter: nil when the call passes no mark
AddSpan(n, text, marks) ==
    LET span == [Span EXCEPT !.Type = <<"span">>, !.Text = PtrStr(text), !.Marks = marks]
    IN  [n EXCEPT !.Children = Slice(Append(n.Children.v, span))]

AddMarkDef(n, key, markType, raw) ==
    LET md == [MarkDef EXCEPT !.Key = key, !.Type = markType,
                              !.Raw = IF raw.nil THEN <<>> ELSE raw.v]
    IN  [n EXCEPT !.MarkDefs = Slice(Append(n.MarkDefs.v, md))]

-----------------------------------------------------------------------------
(* Bounded input domain: the JSON texts handed to Decode *)

MaxNodes == 2
MaxChildren == 2
MaxMarkDefs == 2
MaxNodeFields == 2
MaxSpanFields == 2

\* the objects with at most m of the keys of vals, each key k mapped to a value of vals[k]
ObjsOver(vals, m) ==
    UNION { { f \in [S -> UNION {vals[k] : k \in S}] : \A k \in S : f[k] \in vals[k] }
            : S \in {T \in SUBSET (DOMAIN vals) : Cardinality(T) <= m} }

WithType(f, tv) == [k \in (DOMAIN f) \cup {"_type"} |-> IF k = "_type" THEN tv ELSE f[k]]

SeqsUpTo(S, m) == UNION { [1..n -> S] : n \in 0..m }

\* _type values Decode must reject
BadTypeVals == {JNull, JStr(<<>>), JNum("5")}

GoodSpan == JObj([_type |-> JStr(<<"span">>), text |-> JStr(<<"hi">>)])
MarkedSpan == JObj([_type |-> JStr(<<"span">>), text |-> JStr(<<"x", ">">>),
                    marks |-> JArr(<<JStr(<<"m1">>)>>)])
UntypedSpan == JObj([text |-> JStr(<<"hi">>)])
BadMarksSpan == JObj([_type |-> JStr(<<"span">>), text |-> JStr(<<"hi">>),
                      marks |-> JArr(<<JNum("123")>>)])

SpanFieldVals ==
    [text |-> {JNull, JStr(<<>>), JStr(<<"a", "<", "b">>), JStr(<<"\\u0026", "\\\"">>), JNum("7")},
     marks |-> {JNull, JArr(<<>>), JArr(<<JStr(<<"m1">>)>>),
                JArr(<<JStr(<<"m1">>), JNum("123")>>), JStr(<<"not-array">>)},
     _key |-> {JNull, JStr(<<"s1">>)}]

BadTypeSpanFields == {<<>>, [text |-> JStr(<<"hi">>)], [marks |-> JStr(<<"not-array">>)]}

RichSpans ==
    { JObj(WithType(f, JStr(<<"span">>))) : f \in ObjsOver(SpanFieldVals, MaxSpanFields) }
    \cup { JObj(WithType(f, JStr(<<"img">>))) : f \in ObjsOver(SpanFieldVals, 1) }
    \cup { JObj(f) : f \in BadTypeSpanFields }
    \cup { JObj(WithType(f, tv)) : f \in BadTypeSpanFields, tv \in BadTypeVals }

GoodMarkDef == JObj([_type |-> JStr(<<"link">>), _key |-> JStr(<<"m1">>),
                     href |-> JStr(<<"u", "&", "v">>)])
UntypedMarkDef == JObj([_key |-> JStr(<<"m2">>)])

MarkDefFieldVals ==
    [_key |-> {JNull, JStr(<<>>), JStr(<<"m1">>), JNum("3")},
     href |-> {JNull, JStr(<<"u", "&", "v">>)}]

RichMarkDefs ==
    { JObj(WithType(f, JStr(<<"link">>))) : f \in ObjsOver(MarkDefFieldVals, 2) }
    \cup { JObj(WithType([_key |-> JStr(<<"m1">>)], tv)) : tv \in BadTypeVals }

\* the values of the fields of a node that is varied in its own fields
NodeFieldVals ==
    [_key |-> {JNull, JStr(<<>>), JStr(<<"k1">>), JNum("3")},
     style |-> {JNull, JStr(<<"h", "<", "1">>), JNum("2")},
     listItem |-> {JNull, JStr(<<"bullet">>), JBool("true")},
     level |-> {JNull, JNum("1"), JNum("-0"), JNum("1.5"), JNum("9223372036854775808"),
                JStr(<<"not a number">>)},
     children |-> {JNull, JStr(<<"x">>), JArr(<<>>), JArr(<<GoodSpan>>), JArr(<<BadMarksSpan>>),
                   JArr(<<UntypedSpan>>)},
     markDefs |-> {JNull, JBool("true"), JArr(<<>>), JArr(<<GoodMarkDef>>), JArr(<<UntypedMarkDef>>)},
     custom |-> {JNull, JStr(<<"&">>), JNum("1.50"),
                 JObj([a |-> JArr(<<JStr(<<"<", "\\u003e">>), JNull>>)])}]

BadTypeNodeFields == {<<>>, [level |-> JNum("1.5")], [children |-> JStr(<<"x">>)]}

Block(f) == JObj(WithType(f, JStr(<<"block">>)))

RichNodes ==
    \* varied in the node's own fields
    { Block(f) : f \in ObjsOver(NodeFieldVals, MaxNodeFields) }
    \* without a usable _type
    \cup { JObj(f) : f \in BadTypeNodeFields }
    \cup { JObj(WithType(f, tv)) : f \in BadTypeNodeFields, tv \in BadTypeVals }
    \* varied in one span, in the sequence of spans, in one markDef, in the sequence of markDefs
    \cup { Block([children |-> JArr(<<sp>>)]) : sp \in RichSpans }
    \cup { Block([children |-> JArr(q)])
           : q \in SeqsUpTo({GoodSpan, MarkedSpan, UntypedSpan, BadMarksSpan, JNum("5"), JNull},
                            MaxChildren) }
    \cup { Block([markDefs |-> JArr(<<md>>)]) : md \in RichMarkDefs }
    \cup { Block([markDefs |-> JArr(q)])
           : q \in SeqsUpTo({GoodMarkDef, UntypedMarkDef, JStr(<<"x">>), JNull}, MaxMarkDefs) }
    \* a span with null fields next to markDefs
    \cup { Block([children |-> JArr(<<JObj([_type |-> JStr(<<"span">>), text |-> JNull, marks |-> JNull])>>),
                  markDefs |-> mds, style |-> JNull])
           : mds \in {JNull, JArr(<<GoodMarkDef>>)} }

SmallNodes ==
    { Block([children |-> JArr(<<GoodSpan>>)]),
      JObj([_type |-> JStr(<<"image">>), url |-> JStr(<<"u", "&", "v">>)]),
      JObj([children |-> JArr(<<>>)]),
      JNum("5"),
      JNull,
      JV("bad", <<>>, <<>>, <<>>) }

GoodNode == JObj([_type |-> JStr(<<"image">>)])

Inputs ==
    { Text("array", q) : q \in SeqsUpTo(SmallNodes, MaxNodes) }
    \cup { Text("array", <<r>>) : r \in RichNodes }
    \cup { Text("array", <<GoodNode, r>>) : r \in RichNodes }
    \cup { Text("unclosed", q) : q \in SeqsUpTo(SmallNodes, 1) }
    \cup { Text(top, <<>>) : top \in {"empty", "null", "object", "string", "number"} }

-----------------------------------------------------------------------------
(* Decode, as the steps of its loop; then Encode and a second Decode *)

SyntaxError == "json.SyntaxError"

Return(d, e) ==
    /\ pc' = "returned"
    /\ doc' = d
    /\ err' = e

\* dec.Token() must yield '['
DecodeBegin ==
    /\ pc = "start"
    /\ IF src.top = "empty" THEN Return(NilDocument, wrap("decode", <<>>, EOF)) /\ i' = i
       ELSE IF src.top \notin {"array", "unclosed"}
            THEN Return(NilDocument, wrap("decode", <<>>, ErrUnexpectedToken)) /\ i' = i
            ELSE pc' = "loop" /\ i' = 0 /\ doc' = NilDocument /\ err' = NoError
    /\ UNCHANGED <<mem, aux, input, src, round, examined, doc1, out>>

\* mutant: a failing element is skipped and the loop goes on
DecodeElemSkipping ==
    /\ pc = "loop"
    /\ i < Len(src.elems)
    /\ IF src.elems[i + 1].t = "bad"
       THEN /\ i' = i + 1
            /\ UNCHANGED <<pc, doc, err, examined>>
       ELSE \E r \in parseNode(src.elems[i + 1], Index(<<>>, i)) :
               /\ examined' = examined \cup {i}
               /\ doc' = IF r.ok THEN Slice(Append(doc.v, r.val)) ELSE doc
               /\ i' = i + 1
               /\ UNCHANGED <<pc, err>>
    /\ UNCHANGED <<mem, aux, input, src, round, doc1, out>>

\* one iteration of "for dec.More()"
DecodeElem ==
    /\ pc = "loop"
    /\ i < Len(src.elems)
    /\ IF src.elems[i + 1].t = "bad"
       THEN /\ Return(NilDocument, wrap("decode", Index(<<>>, i), SyntaxError))
            /\ UNCHANGED <<i, examined>>
       ELSE \E r \in parseNode(src.elems[i + 1], Index(<<>>, i)) :
               /\ examined' = examined \cup {i}
               /\ IF r.ok
                  THEN /\ doc' = Slice(Append(doc.v, r.val))
                       /\ i' = i + 1
                       /\ UNCHANGED <<pc, err>>
                  ELSE /\ Return(NilDocument, r.err)
                       /\ i' = i
    /\ UNCHANGED <<mem, aux, input, src, round, doc1, out>>

\* dec.Token() must yield ']'
DecodeEnd ==
    /\ pc = "loop"
    /\ i = Len(src.elems)
    /\ IF src.top = "unclosed" THEN Return(NilDocument, wrap("decode", <<>>, EOF))
       ELSE Return(doc, NoError)
    /\ UNCHANGED <<mem, aux, input, src, round, i, examined, doc1, out>>

\* Encode(doc) of the first Decode's Document, handed to a second Decode
EncodeDoc ==
    /\ pc = "returned"
    /\ round = 1
    /\ err = NoError
    /\ out' = Encode(doc)
    /\ doc1' = doc
    /\ src' = Encode(doc)
    /\ round' = 2
    /\ pc' = "start"
    /\ i' = 0
    /\ doc' = NilDocument
    /\ examined' = {}
    /\ UNCHANGED <<mem, aux, input, err>>

\* no validation and no traversal is running
AuxIdle ==
    /\ opts = <<>>
    /\ errs = <<>>
    /\ errs0 = <<>>
    /\ fn = <<>>
    /\ calls = <<>>
    /\ blockCount = 0
    /\ res = <<>>
    /\ heap = <<>>
    /\ refs = <<>>

Init ==
    /\ input \in Inputs
    /\ src = input
    /\ pc = "start"
    /\ round = 1
    /\ i = 0
    /\ doc = NilDocument
    /\ err = NoError
    /\ examined = {}
    /\ doc1 = NilDocument
    /\ out = Text("empty", <<>>)
    /\ AuxIdle

Next == DecodeBegin \/ DecodeElem \/ DecodeEnd \/ EncodeDoc

Spec == Init /\ [][Next]_vars

-----------------------------------------------------------------------------
(* A Document built by the program, then Encode and Decode *)

\* the arguments the builder calls are made with
BuildStyles == {<<"normal">>, <<"h", "<", "1">>}
BuildTypes == {<<>>, <<"image">>}
BuildSpanArgs == {[text |-> <<"a", "&", "b">>, marks |-> NilSlice],
                  [text |-> <<>>, marks |-> Slice(<<<<"m1">>>>)]}
BuildMarkDefArgs == {[key |-> <<"m1">>, markType |-> <<"link">>, raw |-> NilMap],
                     [key |-> <<>>, markType |-> <<>>,
                      raw |-> Map([_key |-> JStr(<<"zz">>), href |-> JStr(<<"u", "&", "v">>)])]}
BuildRawVals == [custom |-> JStr(<<"v">>), level |-> JStr(<<"v">>), _type |-> JStr(<<"v">>)]
BuildFields == {"Key", "Level"}

\* the node under construction is the only element of doc
Building == pc = "build" /\ ~doc.nil
Built(n) ==
    /\ doc' = Slice(<<n>>)
    /\ UNCHANGED <<mem, aux, input, src, pc, round, i, err, examined, doc1, out>>

\* doc := Document{*NewBlock(style)}
BuildNewBlock ==
    /\ pc = "build"
    /\ doc.nil
    /\ \E style \in BuildStyles : Built(NewBlock(style))

\* doc := Document{*NewNode(nodeType)}
BuildNewNode ==
    /\ pc = "build"
    /\ doc.nil
    /\ \E nodeType \in BuildTypes : Built(NewNode(nodeType))

\* each call is made at most once with the same arguments
BuildAddSpan ==
    /\ Building
    /\ \E a \in BuildSpanArgs :
          /\ \A j \in 1..Len(doc.v[1].Children.v) : doc.v[1].Children.v[j].Text.v # a.text
          /\ Built(AddSpan(doc.v[1], a.text, a.marks))

BuildAddMarkDef ==
    /\ Building
    /\ \E a \in BuildMarkDefArgs :
          /\ \A j \in 1..Len(doc.v[1].MarkDefs.v) : doc.v[1].MarkDefs.v[j].Key # a.key
          /\ Built(AddMarkDef(doc.v[1], a.key, a.markType, a.raw))

\* a direct write: node.Raw[k] = v
BuildSetRaw ==
    /\ Building
    /\ \E k \in (DOMAIN BuildRawVals) \ DOMAIN doc.v[1].Raw :
          Built([doc.v[1] EXCEPT !.Raw = MapSet(doc.v[1].Raw, k, BuildRawVals[k])])

\* a direct write to a typed field: node.Key = "k1", node.Level = &one
FieldUnset(n, f) == IF f = "Key" THEN n.Key = <<>> ELSE n.Level.nil
SetField(n, f) == IF f = "Key" THEN [n EXCEPT !.Key = <<"k1">>] ELSE [n EXCEPT !.Level = PtrInt(1)]
BuildSetField ==
    /\ Building
    /\ \E f \in BuildFields : FieldUnset(doc.v[1], f) /\ Built(SetField(doc.v[1], f))

\* the Document, nil when nothing was built, is handed to Encode
BuildDone ==
    /\ pc = "build"
    /\ pc' = "returned"
    /\ UNCHANGED <<mem, aux, input, src, round, i, doc, err, examined, doc1, out>>

InitBuild ==
    /\ input = Text("empty", <<>>)
    /\ src = input
    /\ pc = "build"
    /\ round = 1
    /\ i = 0
    /\ doc = NilDocument
    /\ err = NoError
    /\ examined = {}
    /\ doc1 = NilDocument
    /\ out = Text("empty", <<>>)
    /\ AuxIdle

NextBuild ==
    \/ BuildNewBlock \/ BuildNewNode \/ BuildAddSpan \/ BuildAddMarkDef \/ BuildSetRaw
    \/ BuildSetField \/ BuildDone \/ EncodeDoc \/ DecodeBegin \/ DecodeElem \/ DecodeEnd

SpecBuild == InitBuild /\ [][NextBuild]_vars

-----------------------------------------------------------------------------
(* Validation *)

\* ValidationOptions{}: the zero value, used by Validate
DefaultOptions == [RequireKeys |-> FALSE, CheckMarkDefRefs |-> FALSE, AllowEmptyText |-> FALSE]
Options == [RequireKeys : BOOLEAN, CheckMarkDefRefs : BOOLEAN, AllowEmptyText : BOOLEAN]

\* &ValidationError{Path, Message, Node}; Node is &doc[n], held as the index n
ValidationError(path, message, n) == [Path |-> path, Message |-> message, Node |-> n]

MarkNotFound(mark) == <<"mark '">> \o mark \o <<"' not found in markDefs">>

\* the set of keys of markDefMap; the map is only made under CheckMarkDefRefs
markDefMap(n, o) ==
    IF o.CheckMarkDefRefs THEN {n.MarkDefs.v[j].Key : j \in 1..Len(n.MarkDefs.v)} ELSE {}

\* "for _, mark := range c.Marks", from the m-th mark on
RECURSIVE validateMarks(_, _, _, _, _, _)
validateMarks(n, c, m, cpath, o, ni) ==
    IF m > Len(c.Marks.v) THEN <<>>
    ELSE (IF c.Marks.v[m] \notin markDefMap(n, o)
          THEN <<ValidationError(cpath, MarkNotFound(c.Marks.v[m]), ni)>> ELSE <<>>)
         \o validateMarks(n, c, m + 1, cpath, o, ni)

\* mutant: the empty text is flagged whatever AllowEmptyText is
validateTextStrict(c, cpath, o, ni) ==
    IF c.Text.nil THEN <<ValidationError(cpath, <<"span missing text">>, ni)>>
    ELSE IF c.Text.v = <<>>
         THEN <<ValidationError(cpath, <<"span has empty text">>, ni)>>
         ELSE <<>>

\* the text checks of a child whose Type is "span"
validateText(c, cpath, o, ni) ==
    IF c.Text.nil THEN <<ValidationError(cpath, <<"span missing text">>, ni)>>
    ELSE IF ~o.AllowEmptyText /\ c.Text.v = <<>>
         THEN <<ValidationError(cpath, <<"span has empty text">>, ni)>>
         ELSE <<>>

\* mutant: a mark is reported once per span, however often the span names it
validateMarkRefsOnce(n, c, cpath, o, ni) ==
    IF o.CheckMarkDefRefs /\ \E m \in 1..Len(c.Marks.v) : c.Marks.v[m] \notin markDefMap(n, o)
    THEN <<ValidationError(cpath,
              MarkNotFound(c.Marks.v[CHOOSE m \in 1..Len(c.Marks.v) :
                                        c.Marks.v[m] \notin markDefMap(n, o)]), ni)>>
    ELSE <<>>

\* the mark reference checks of a child whose Type is "span"
validateMarkRefs(n, c, cpath, o, ni) ==
    IF o.CheckMarkDefRefs THEN validateMarks(n, c, 1, cpath, o, ni) ELSE <<>>

\* one iteration of "for j := range n.Children"
validateChild(n, j, path, o, ni) ==
    LET c == n.Children.v[j + 1]
        cpath == Index(Field(path, "children"), j)
    IN  IF c.Type = <<>> THEN <<ValidationError(cpath, <<"missing _type">>, ni)>>
        ELSE IF c.Type = <<"span">>
             THEN validateText(c, cpath, o, ni) \o validateMarkRefs(n, c, cpath, o, ni)
             ELSE <<>>

RECURSIVE validateChildren(_, _, _, _, _)
validateChildren(n, j, path, o, ni) ==
    IF j >= Len(n.Children.v) THEN <<>>
    ELSE validateChild(n, j, path, o, ni) \o validateChildren(n, j + 1, path, o, ni)

\* mutant: a markDef without a Type is not checked for its key
validateMarkDefFirstOnly(n, j, path, ni) ==
    LET md == n.MarkDefs.v[j + 1]
        mdpath == Index(Field(path, "markDefs"), j)
    IN  IF md.Type = <<>> THEN <<ValidationError(mdpath, <<"markDef missing _type">>, ni)>>
        ELSE IF md.Key = <<>> THEN <<ValidationError(mdpath, <<"markDef missing _key">>, ni)>>
        ELSE <<>>

\* one iteration of "for j := range n.MarkDefs"
validateMarkDef(n, j, path, ni) ==
    LET md == n.MarkDefs.v[j + 1]
        mdpath == Index(Field(path, "markDefs"), j)
    IN  (IF md.Type = <<>> THEN <<ValidationError(mdpath, <<"markDef missing _type">>, ni)>>
         ELSE <<>>)
        \o (IF md.Key = <<>> THEN <<ValidationError(mdpath, <<"markDef missing _key">>, ni)>>
            ELSE <<>>)

RECURSIVE validateMarkDefs(_, _, _, _)
validateMarkDefs(n, j, path, ni) ==
    IF j >= Len(n.MarkDefs.v) THEN <<>>
    ELSE validateMarkDef(n, j, path, ni) \o validateMarkDefs(n, j + 1, path, ni)

\* mutant: a node with an empty Type is reported and then checked like any other
validateNodeNoSkip(n, ni, o) ==
    LET path == Index(<<>>, ni) IN
    (IF n.Type = <<>> THEN <<ValidationError(path, <<"missing _type">>, ni)>> ELSE <<>>)
    \o (IF o.RequireKeys /\ n.Key = <<>>
        THEN <<ValidationError(path, <<"missing _key">>, ni)>> ELSE <<>>)
    \o (IF n.Type = <<"block">>
        THEN validateChildren(n, 0, path, o, ni) \o validateMarkDefs(n, 0, path, ni)
        ELSE <<>>)

\* one iteration of "for i := range doc": what it appends to errs
validateNode(n, ni, o) ==
    LET path == Index(<<>>, ni) IN
    IF n.Type = <<>> THEN <<ValidationError(path, <<"missing _type">>, ni)>>
    ELSE (IF o.RequireKeys /\ n.Key = <<>>
          THEN <<ValidationError(path, <<"missing _key">>, ni)>> ELSE <<>>)
         \o (IF n.Type = <<"block">>
             THEN validateChildren(n, 0, path, o, ni) \o validateMarkDefs(n, 0, path, ni)
             ELSE <<>>)

\* the Documents handed to validation
ValTexts == {NilStr, PtrStr(<<>>), PtrStr(<<"Hi">>)}
ValMarks == {NilSlice, Slice(<<<<"link1">>>>), Slice(<<<<"link1">>, <<"em">>>>),
             Slice(<<<<"em">>, <<"em">>>>)}
ValSpans ==
    { [Span EXCEPT !.Type = t, !.Text = x, !.Marks = m]
      : t \in {<<>>, <<"span">>, <<"img">>}, x \in ValTexts, m \in ValMarks }
ValSmallSpans ==
    { [Span EXCEPT !.Type = <<"span">>, !.Text = PtrStr(<<"Hi">>)],
      [Span EXCEPT !.Type = <<"span">>, !.Marks = Slice(<<<<"link1">>>>)],
      [Span EXCEPT !.Type = <<>>] }
ValMarkDefs ==
    { [MarkDef EXCEPT !.Key = k, !.Type = t] : k \in {<<>>, <<"link1">>}, t \in {<<>>, <<"link">>} }
ValLink1 == [MarkDef EXCEPT !.Key = <<"link1">>, !.Type = <<"link">>]
ValChildren ==
    {NilSlice} \cup {Slice(<<c>>) : c \in ValSpans}
    \cup {Slice(q) : q \in SeqsUpTo(ValSmallSpans, MaxChildren)}
ValNodes ==
    { [Node EXCEPT !.Type = t, !.Key = k, !.Children = cs, !.MarkDefs = mds]
      : t \in {<<>>, <<"block">>, <<"image">>}, k \in {<<>>, <<"k1">>},
        cs \in ValChildren, mds \in {NilSlice, Slice(<<>>), Slice(<<ValLink1>>)} }
    \cup
    { [Node EXCEPT !.Type = <<"block">>, !.Key = k, !.MarkDefs = Slice(q),
                   !.Children = Slice(<<[Span EXCEPT !.Type = <<"span">>, !.Text = PtrStr(<<>>),
                                                     !.Marks = Slice(<<<<"link1">>>>)]>>)]
      : k \in {<<>>, <<"k1">>}, q \in SeqsUpTo(ValMarkDefs, MaxMarkDefs) }
    \cup
    { [Node EXCEPT !.Type = t, !.MarkDefs = Slice(<<md>>),
                   !.Children = Slice(<<[Span EXCEPT !.Type = <<"span">>]>>)]
      : t \in {<<>>, <<"image">>}, md \in ValMarkDefs }
ValSmallNodes ==
    { [Node EXCEPT !.Type = <<>>, !.Children = Slice(<<>>)],
      [Node EXCEPT !.Type = <<"block">>,
                   !.Children = Slice(<<[Span EXCEPT !.Type = <<"span">>]>>)],
      [Node EXCEPT !.Type = <<"block">>, !.Key = <<"k1">>,
                   !.Children = Slice(<<[Span EXCEPT !.Type = <<"span">>, !.Text = PtrStr(<<"Hi">>)]>>)],
      [Node EXCEPT !.Type = <<"image">>] }
ValDocs ==
    {NilDocument} \cup {Slice(<<n>>) : n \in ValNodes}
    \cup {Slice(q) : q \in SeqsUpTo(ValSmallNodes, MaxNodes)}

\* Validate(doc): ValidateWithOptions(doc, ValidationOptions{})
CallValidate ==
    /\ pc = "idle"
    /\ opts' = DefaultOptions
    /\ errs' = <<>>
    /\ i' = 0
    /\ pc' = "validate"
    /\ UNCHANGED <<mem, codec, trav, round, doc, doc1, errs0>>

\* ValidateWithOptions(doc, o) on the Document Validate was called with
CallValidateWithOptions ==
    /\ pc = "validated"
    /\ round = 1
    /\ \E o \in Options : opts' = o
    /\ errs0' = errs
    /\ errs' = <<>>
    /\ i' = 0
    /\ round' = 2
    /\ pc' = "validate"
    /\ UNCHANGED <<mem, codec, trav, doc, doc1>>

\* mutant: the loop stops after the first node that had a finding
ValidateNodeShort ==
    /\ pc = "validate"
    /\ i < Len(doc.v)
    /\ errs' = errs \o validateNode(doc.v[i + 1], i, opts)
    /\ i' = IF errs' # <<>> THEN Len(doc.v) ELSE i + 1
    /\ UNCHANGED <<mem, codec, trav, pc, round, doc, doc1, opts, errs0>>

\* one iteration of "for i := range doc"
ValidateNode ==
    /\ pc = "validate"
    /\ i < Len(doc.v)
    /\ errs' = errs \o validateNode(doc.v[i + 1], i, opts)
    /\ i' = i + 1
    /\ UNCHANGED <<mem, codec, trav, pc, round, doc, doc1, opts, errs0>>

\* return errs
ValidateReturn ==
    /\ pc = "validate"
    /\ i = Len(doc.v)
    /\ pc' = "validated"
    /\ UNCHANGED <<mem, codec, aux, round, i, doc, doc1>>

InitValidate ==
    /\ input = Text("empty", <<>>)
    /\ src = input
    /\ pc = "idle"
    /\ round = 1
    /\ i = 0
    /\ doc \in ValDocs
    /\ err = NoError
    /\ examined = {}
    /\ doc1 = NilDocument
    /\ out = Text("empty", <<>>)
    /\ AuxIdle

NextValidate == CallValidate \/ CallValidateWithOptions \/ ValidateNode \/ ValidateReturn

SpecValidate == InitValidate /\ [][NextValidate]_vars

-----------------------------------------------------------------------------
(* Traversal: Walk, WalkWithContext, Filter, Transform *)

IsBlock(n) == n.Type = <<"block">>

\* append([]string(nil), in...) of a slice that is not nil: nil when it is empty
cloneMarks(marks) == IF marks.nil \/ Len(marks.v) = 0 THEN NilSlice ELSE Slice(marks.v)

cloneSpans(in) ==
    IF in.nil THEN NilSlice
    ELSE Slice([j \in 1..Len(in.v) |-> [in.v[j] EXCEPT !.Marks = cloneMarks(in.v[j].Marks)]])

cloneMarkDefs(in) == IF in.nil THEN NilSlice ELSE Slice(in.v)

\* Node.Clone: the copy has the values of the original
Clone(n) == [n EXCEPT !.Children = cloneSpans(n.Children), !.MarkDefs = cloneMarkDefs(n.MarkDefs)]

\* what a callback of Walk does at a node: the error it returns ("nil" for
\* none) and whether it changes the Type of the node it was handed
WalkReturns == {"nil", "stop", "halt"}
WalkFns(d) == [1..Len(d.v) -> [ret : WalkReturns, retype : BOOLEAN]]
\* a predicate of Filter: what it answers and whether it changes the Type of
\* the node it was handed
FilterFns(d) == [1..Len(d.v) -> [keep : BOOLEAN, retype : BOOLEAN]]
\* a function of Transform: returns nil, the node it was handed, or that node
\* with another style
TransformReturns == {"nil", "same", "restyled"}
TransformFns(d) == [1..Len(d.v) -> TransformReturns]
Restyled(n) == [n EXCEPT !.Style = PtrStr(<<"h3">>)]

Retyped(d, k, f) == IF f.retype THEN [d EXCEPT !.v[k].Type = <<"image">>] ELSE d

\* WalkContext{Index, Parent, Depth, BlockCount}
WalkContext(index, bc) == [Index |-> index, Parent |-> "nil", Depth |-> 0, BlockCount |-> bc]
NoContext == <<>>

\* fn(&doc[i]) or fn(&doc[i], ctx) is entered
Invoke(n, ctx) == calls' = Append(calls, [Index |-> i, Node |-> n, Ctx |-> ctx])

\* the Documents handed to the traversal
\* a block as Decode returns it, with every typed slot and Raw in use
TravDecodedNode ==
    [Node EXCEPT !.Type = <<"block">>, !.Key = <<"k1">>, !.Style = PtrStr(<<"normal">>),
                 !.ListItem = PtrStr(<<"bullet">>), !.Level = PtrInt(1),
                 !.Children = Slice(<<[Span EXCEPT !.Type = <<"span">>, !.Text = PtrStr(<<"a">>)],
                                      [Span EXCEPT !.Type = <<"span">>, !.Marks = Slice(<<<<"m1">>>>),
                                                   !.Raw = [text |-> JNull]]>>),
                 !.MarkDefs = Slice(<<[MarkDef EXCEPT !.Key = <<"m1">>, !.Type = <<"link">>,
                                                      !.Raw = [href |-> JStr(<<"u">>)]]>>),
                 !.Raw = [custom |-> JObj([a |-> JArr(<<JStr(<<"x">>), JNull>>)])]]
TravNodes ==
    { NewBlock(<<"h1">>),
      AddSpan(NewBlock(<<"normal">>), <<"Content">>, Slice(<<>>)),
      NewNode(<<"customType">>),
      TravDecodedNode }
TravDocs == {NilDocument} \cup {Slice(q) : q \in SeqsUpTo(TravNodes, MaxNodes) \ {<<>>}}

CallWalk ==
    /\ pc = "idle"
    /\ \E f \in WalkFns(doc) : fn' = f
    /\ pc' = "walk"
    /\ i' = 0
    /\ doc1' = doc
    /\ UNCHANGED <<mem, codec, val, round, doc, calls, blockCount, res>>

\* mutant: the error of the callback is dropped and the loop goes on
WalkStepNoStop ==
    /\ pc = "walk"
    /\ i < Len(doc.v)
    /\ Invoke(doc.v[i + 1], NoContext)
    /\ doc' = Retyped(doc, i + 1, fn[i + 1])
    /\ i' = i + 1
    /\ UNCHANGED <<mem, codec, val, pc, round, doc1, fn, blockCount, res>>

\* one iteration of Walk's loop
WalkStep ==
    /\ pc = "walk"
    /\ i < Len(doc.v)
    /\ Invoke(doc.v[i + 1], NoContext)
    /\ doc' = Retyped(doc, i + 1, fn[i + 1])
    /\ IF fn[i + 1].ret # "nil"
       THEN res' = fn[i + 1].ret /\ pc' = "walked" /\ i' = i
       ELSE i' = i + 1 /\ UNCHANGED <<pc, res>>
    /\ UNCHANGED <<mem, codec, val, round, doc1, fn, blockCount>>

\* return nil
WalkReturn ==
    /\ pc = "walk"
    /\ i = Len(doc.v)
    /\ res' = "nil"
    /\ pc' = "walked"
    /\ UNCHANGED <<mem, codec, val, round, i, doc, doc1, fn, calls, blockCount>>

CallWalkWithContext ==
    /\ pc = "idle"
    /\ \E f \in WalkFns(doc) : fn' = f
    /\ pc' = "walkctx"
    /\ i' = 0
    /\ blockCount' = 0
    /\ doc1' = doc
    /\ UNCHANGED <<mem, codec, val, round, doc, calls, res>>

\* mutant: the current node is counted before the context is made
WalkWithContextStepCounted ==
    /\ pc = "walkctx"
    /\ i < Len(doc.v)
    /\ blockCount' = IF IsBlock(doc.v[i + 1]) THEN blockCount + 1 ELSE blockCount
    /\ Invoke(doc.v[i + 1], WalkContext(i, blockCount'))
    /\ doc' = Retyped(doc, i + 1, fn[i + 1])
    /\ IF fn[i + 1].ret # "nil"
       THEN res' = fn[i + 1].ret /\ pc' = "walkedctx" /\ i' = i
       ELSE i' = i + 1 /\ UNCHANGED <<pc, res>>
    /\ UNCHANGED <<mem, codec, val, round, doc1, fn>>

\* one iteration of WalkWithContext's loop
WalkWithContextStep ==
    /\ pc = "walkctx"
    /\ i < Len(doc.v)
    /\ blockCount' = IF IsBlock(doc.v[i + 1]) THEN blockCount + 1 ELSE blockCount
    /\ Invoke(doc.v[i + 1], WalkContext(i, blockCount))
    /\ doc' = Retyped(doc, i + 1, fn[i + 1])
    /\ IF fn[i + 1].ret # "nil"
       THEN res' = fn[i + 1].ret /\ pc' = "walkedctx" /\ i' = i
       ELSE i' = i + 1 /\ UNCHANGED <<pc, res>>
    /\ UNCHANGED <<mem, codec, val, round, doc1, fn>>

\* return nil
WalkWithContextReturn ==
    /\ pc = "walkctx"
    /\ i = Len(doc.v)
    /\ res' = "nil"
    /\ pc' = "walkedctx"
    /\ UNCHANGED <<mem, codec, val, round, i, doc, doc1, fn, calls, blockCount>>

\* result := make(Document, 0)
CallFilter ==
    /\ pc = "idle"
    /\ \E f \in FilterFns(doc) : fn' = f
    /\ pc' = "filter"
    /\ i' = 0
    /\ res' = Slice(<<>>)
    /\ doc1' = doc
    /\ UNCHANGED <<mem, codec, val, round, doc, calls, blockCount>>

\* mutant: a selected node is put in front of the result
FilterStepPrepending ==
    /\ pc = "filter"
    /\ i < Len(doc.v)
    /\ Invoke(doc.v[i + 1], NoContext)
    /\ doc' = Retyped(doc, i + 1, fn[i + 1])
    /\ res' = IF fn[i + 1].keep THEN Slice(<<Clone(doc'.v[i + 1])>> \o res.v) ELSE res
    /\ i' = i + 1
    /\ UNCHANGED <<mem, codec, val, pc, round, doc1, fn, blockCount>>

\* one iteration of Filter's loop
FilterStep ==
    /\ pc = "filter"
    /\ i < Len(doc.v)
    /\ Invoke(doc.v[i + 1], NoContext)
    /\ doc' = Retyped(doc, i + 1, fn[i + 1])
    /\ res' = IF fn[i + 1].keep THEN Slice(Append(res.v, Clone(doc'.v[i + 1]))) ELSE res
    /\ i' = i + 1
    /\ UNCHANGED <<mem, codec, val, pc, round, doc1, fn, blockCount>>

\* return result
FilterReturn ==
    /\ pc = "filter"
    /\ i = Len(doc.v)
    /\ pc' = "filtered"
    /\ UNCHANGED <<mem, codec, aux, round, i, doc, doc1>>

\* result := make(Document, 0, len(doc))
CallTransform ==
    /\ pc = "idle"
    /\ \E f \in TransformFns(doc) : fn' = f
    /\ pc' = "transform"
    /\ i' = 0
    /\ res' = Slice(<<>>)
    /\ doc1' = doc
    /\ UNCHANGED <<mem, codec, val, round, doc, calls, blockCount>>

\* one iteration of Transform's loop: fn is handed doc[i].Clone()
TransformStep ==
    /\ pc = "transform"
    /\ i < Len(doc.v)
    /\ Invoke(Clone(doc.v[i + 1]), NoContext)
    /\ res' = CASE fn[i + 1] = "nil" -> res
                [] fn[i + 1] = "same" -> Slice(Append(res.v, Clone(doc.v[i + 1])))
                [] fn[i + 1] = "restyled" -> Slice(Append(res.v, Restyled(Clone(doc.v[i + 1]))))
    /\ i' = i + 1
    /\ UNCHANGED <<mem, codec, val, pc, round, doc, doc1, fn, blockCount>>

\* return result
TransformReturn ==
    /\ pc = "transform"
    /\ i = Len(doc.v)
    /\ pc' = "transformed"
    /\ UNCHANGED <<mem, codec, aux, round, i, doc, doc1>>

InitTraverse ==
    /\ input = Text("empty", <<>>)
    /\ src = input
    /\ pc = "idle"
    /\ round = 1
    /\ i = 0
    /\ doc \in TravDocs
    /\ err = NoError
    /\ examined = {}
    /\ doc1 = NilDocument
    /\ out = Text("empty", <<>>)
    /\ AuxIdle

NextTraverse ==
    \/ CallWalk
    \/ WalkStep
    \/ WalkReturn
    \/ CallWalkWithContext
    \/ WalkWithContextStep
    \/ WalkWithContextReturn
    \/ CallFilter
    \/ FilterStep
    \/ FilterReturn
    \/ CallTransform
    \/ TransformStep
    \/ TransformReturn

SpecTraverse == InitTraverse /\ [][NextTraverse]_vars

-----------------------------------------------------------------------------
(* Documents in memory: pointers, slices and maps as cells with addresses *)

\* heap[a] is the cell at address a; 0 is nil.  A *string or *int cell holds
\* the value; the backing array of a []Node, []Span, []MarkDef, []string or
\* []any holds the sequence of its elements; a map[string]any cell holds the
\* function from its keys.  A struct holds the addresses of what it points
\* to; a value of type any that is a map or a slice holds its address.
Nil == 0
New(h, cell) == [h |-> Append(h, cell), a |-> Len(h) + 1]
\* Body(v) for the value v of x: x is computed once, before what follows it,
\* as a statement is executed before the next one
With(x, Body(_)) == CHOOSE r \in {Body(v) : v \in {x}} : TRUE
RefMap(a) == JV("map", <<>>, <<a>>, <<>>)
RefList(a) == JV("list", <<>>, <<a>>, <<>>)
IsRef(v) == v.t \in {"map", "list"}
KeyOf(S) == CHOOSE k \in S : TRUE

\* a value as the program holds it after Decode or a builder call: every
\* pointer, slice and map in a cell of its own
RECURSIVE StoreAny(_, _), StoreEntries(_, _, _, _), StoreItems(_, _, _, _)
StoreAny(h, v) ==
    IF v.t = "obj"
    THEN With(StoreEntries(h, v.o, DOMAIN v.o, <<>>), LAMBDA e :
         With(New(e.h, e.v), LAMBDA c : [h |-> c.h, v |-> RefMap(c.a)]))
    ELSE IF v.t = "arr"
    THEN With(StoreItems(h, v.a, 1, <<>>), LAMBDA e :
         With(New(e.h, e.v), LAMBDA c : [h |-> c.h, v |-> RefList(c.a)]))
    ELSE [h |-> h, v |-> v]
StoreEntries(h, m, keys, acc) ==
    IF keys = {} THEN [h |-> h, v |-> acc]
    ELSE With(KeyOf(keys), LAMBDA k :
         With(StoreAny(h, m[k]), LAMBDA e :
         With(MapSet(acc, k, e.v), LAMBDA acc1 :
              StoreEntries(e.h, m, keys \ {k}, acc1))))
StoreItems(h, q, n, acc) ==
    IF n > Len(q) THEN [h |-> h, v |-> acc]
    ELSE With(StoreAny(h, q[n]), LAMBDA e :
         With(Append(acc, e.v), LAMBDA acc1 : StoreItems(e.h, q, n + 1, acc1)))

StoreRaw(h, raw) ==
    With(StoreEntries(h, raw, DOMAIN raw, <<>>), LAMBDA e : New(e.h, e.v))
StorePtr(h, p) == IF p.nil THEN [h |-> h, a |-> Nil] ELSE New(h, p.v)

StoreSpan(h, s) ==
    With(StorePtr(h, s.Text), LAMBDA t :
    With(StorePtr(t.h, s.Marks), LAMBDA m :
    With(StoreRaw(m.h, s.Raw), LAMBDA r :
         [h |-> r.h, v |-> [Type |-> s.Type, Text |-> t.a, Marks |-> m.a, Raw |-> r.a]])))
RECURSIVE StoreSpans(_, _, _, _)
StoreSpans(h, q, n, acc) ==
    IF n > Len(q) THEN [h |-> h, v |-> acc]
    ELSE With(StoreSpan(h, q[n]), LAMBDA e :
         With(Append(acc, e.v), LAMBDA acc1 : StoreSpans(e.h, q, n + 1, acc1)))

StoreMarkDef(h, md) ==
    With(StoreRaw(h, md.Raw), LAMBDA r :
         [h |-> r.h, v |-> [Key |-> md.Key, Type |-> md.Type, Raw |-> r.a]])
RECURSIVE StoreMarkDefs(_, _, _, _)
StoreMarkDefs(h, q, n, acc) ==
    IF n > Len(q) THEN [h |-> h, v |-> acc]
    ELSE With(StoreMarkDef(h, q[n]), LAMBDA e :
         With(Append(acc, e.v), LAMBDA acc1 : StoreMarkDefs(e.h, q, n + 1, acc1)))

\* the backing array of a slice whose elements e.v were stored in e.h
StoreSlice(h, e, nil) == IF nil THEN [h |-> h, a |-> Nil] ELSE New(e.h, e.v)

StoreNode(h, n) ==
    With(StorePtr(h, n.Style), LAMBDA st :
    With(StorePtr(st.h, n.ListItem), LAMBDA li :
    With(StorePtr(li.h, n.Level), LAMBDA lv :
    With(StoreSpans(lv.h, n.Children.v, 1, <<>>), LAMBDA ce :
    With(StoreSlice(lv.h, ce, n.Children.nil), LAMBDA cs :
    With(StoreMarkDefs(cs.h, n.MarkDefs.v, 1, <<>>), LAMBDA me :
    With(StoreSlice(cs.h, me, n.MarkDefs.nil), LAMBDA ms :
    With(StoreRaw(ms.h, n.Raw), LAMBDA r :
         [h |-> r.h,
          v |-> [Type |-> n.Type, Key |-> n.Key, Style |-> st.a, Children |-> cs.a,
                 MarkDefs |-> ms.a, ListItem |-> li.a, Level |-> lv.a, Raw |-> r.a]]))))))))
RECURSIVE StoreNodes(_, _, _, _)
StoreNodes(h, q, n, acc) ==
    IF n > Len(q) THEN [h |-> h, v |-> acc]
    ELSE With(StoreNode(h, q[n]), LAMBDA e :
         With(Append(acc, e.v), LAMBDA acc1 : StoreNodes(e.h, q, n + 1, acc1)))
StoreDocument(h, d) ==
    With(StoreNodes(h, d.v, 1, <<>>), LAMBDA e : StoreSlice(h, e, d.nil))

\* the value found in memory: what the program reads through the addresses
RECURSIVE LoadAny(_, _)
LoadAny(h, v) ==
    IF v.t = "map" THEN JObj([k \in DOMAIN h[v.a[1]] |-> LoadAny(h, h[v.a[1]][k])])
    ELSE IF v.t = "list" THEN JArr([n \in 1..Len(h[v.a[1]]) |-> LoadAny(h, h[v.a[1]][n])])
    ELSE v
LoadRaw(h, a) == IF a = Nil THEN <<>> ELSE [k \in DOMAIN h[a] |-> LoadAny(h, h[a][k])]
LoadStr(h, a) == IF a = Nil THEN NilStr ELSE PtrStr(h[a])
LoadInt(h, a) == IF a = Nil THEN NilInt ELSE PtrInt(h[a])
LoadMarks(h, a) == IF a = Nil THEN NilSlice ELSE Slice(h[a])
LoadSpan(h, s) ==
    [Type |-> s.Type, Text |-> LoadStr(h, s.Text), Marks |-> LoadMarks(h, s.Marks),
     Raw |-> LoadRaw(h, s.Raw)]
LoadSpans(h, a) ==
    IF a = Nil THEN NilSlice ELSE Slice([n \in 1..Len(h[a]) |-> LoadSpan(h, h[a][n])])
LoadMarkDef(h, md) == [Key |-> md.Key, Type |-> md.Type, Raw |-> LoadRaw(h, md.Raw)]
LoadMarkDefs(h, a) ==
    IF a = Nil THEN NilSlice ELSE Slice([n \in 1..Len(h[a]) |-> LoadMarkDef(h, h[a][n])])
LoadNode(h, n) ==
    [Type |-> n.Type, Key |-> n.Key, Style |-> LoadStr(h, n.Style),
     Children |-> LoadSpans(h, n.Children), MarkDefs |-> LoadMarkDefs(h, n.MarkDefs),
     ListItem |-> LoadStr(h, n.ListItem), Level |-> LoadInt(h, n.Level),
     Raw |-> LoadRaw(h, n.Raw)]
LoadDocument(h, a) ==
    IF a = Nil THEN NilDocument ELSE Slice([n \in 1..Len(h[a]) |-> LoadNode(h, h[a][n])])

\* mutant: a nested map or slice is not copied
deepCopyAnyShallow(h, v) == [h |-> h, v |-> v]

\* deepCopyAny, deepCopyMap: the copy of a value of type any, with the memory
\* after the allocations
RECURSIVE deepCopyAny(_, _), deepCopyEntries(_, _, _, _), deepCopyItems(_, _, _, _)
deepCopyAny(h, v) ==
    IF v.t = "map"
    THEN With(deepCopyEntries(h, h[v.a[1]], DOMAIN h[v.a[1]], <<>>), LAMBDA e :
         With(New(e.h, e.v), LAMBDA c : [h |-> c.h, v |-> RefMap(c.a)]))
    ELSE IF v.t = "list"
    THEN With(deepCopyItems(h, h[v.a[1]], 1, <<>>), LAMBDA e :
         With(New(e.h, e.v), LAMBDA c : [h |-> c.h, v |-> RefList(c.a)]))
    ELSE [h |-> h, v |-> v]
\* "for k, v := range m { out[k] = deepCopyAny(v) }"
deepCopyEntries(h, m, keys, acc) ==
    IF keys = {} THEN [h |-> h, v |-> acc]
    ELSE With(KeyOf(keys), LAMBDA k :
         With(deepCopyAny(h, m[k]), LAMBDA e :
         With(MapSet(acc, k, e.v), LAMBDA acc1 :
              deepCopyEntries(e.h, m, keys \ {k}, acc1))))
\* "for i := range x { out[i] = deepCopyAny(x[i]) }"
deepCopyItems(h, q, n, acc) ==
    IF n > Len(q) THEN [h |-> h, v |-> acc]
    ELSE With(deepCopyAny(h, q[n]), LAMBDA e :
         With(Append(acc, e.v), LAMBDA acc1 : deepCopyItems(e.h, q, n + 1, acc1)))

deepCopyMap(h, m) ==
    IF m = Nil THEN [h |-> h, a |-> Nil]
    ELSE With(deepCopyEntries(h, h[m], DOMAIN h[m], <<>>), LAMBDA e : New(e.h, e.v))

\* "t := *p; out = &t" for a pointer that is not nil
copyPtr(h, p) == IF p = Nil THEN [h |-> h, a |-> Nil] ELSE New(h, h[p])
\* append([]string(nil), marks...) for a marks that is not nil
copyMarks(h, marks) ==
    IF marks = Nil \/ Len(h[marks]) = 0 THEN [h |-> h, a |-> Nil] ELSE New(h, h[marks])

\* one iteration of cloneSpans' loop
cloneSpanAt(h, s) ==
    With(copyPtr(h, s.Text), LAMBDA t :
    With(copyMarks(t.h, s.Marks), LAMBDA m :
    With(deepCopyMap(m.h, s.Raw), LAMBDA r :
         [h |-> r.h, v |-> [Type |-> s.Type, Text |-> t.a, Marks |-> m.a, Raw |-> r.a]])))
RECURSIVE cloneSpansLoop(_, _, _, _)
cloneSpansLoop(h, q, n, acc) ==
    IF n > Len(q) THEN [h |-> h, v |-> acc]
    ELSE With(cloneSpanAt(h, q[n]), LAMBDA e :
         With(Append(acc, e.v), LAMBDA acc1 : cloneSpansLoop(e.h, q, n + 1, acc1)))
cloneSpansAt(h, in) ==
    IF in = Nil THEN [h |-> h, a |-> Nil]
    ELSE With(cloneSpansLoop(h, h[in], 1, <<>>), LAMBDA e : New(e.h, e.v))

RECURSIVE cloneMarkDefsLoop(_, _, _, _)
cloneMarkDefsLoop(h, q, n, acc) ==
    IF n > Len(q) THEN [h |-> h, v |-> acc]
    ELSE With(deepCopyMap(h, q[n].Raw), LAMBDA r :
         With(Append(acc, [q[n] EXCEPT !.Raw = r.a]), LAMBDA acc1 :
              cloneMarkDefsLoop(r.h, q, n + 1, acc1)))
cloneMarkDefsAt(h, in) ==
    IF in = Nil THEN [h |-> h, a |-> Nil]
    ELSE With(cloneMarkDefsLoop(h, h[in], 1, <<>>), LAMBDA e : New(e.h, e.v))

\* Node.Clone on the struct n: the struct "out" and the memory after the
\* allocations
CloneAt(h, n) ==
    With(copyPtr(h, n.Style), LAMBDA st :
    With(copyPtr(st.h, n.ListItem), LAMBDA li :
    With(copyPtr(li.h, n.Level), LAMBDA lv :
    With(cloneSpansAt(lv.h, n.Children), LAMBDA cs :
    With(cloneMarkDefsAt(cs.h, n.MarkDefs), LAMBDA ms :
    With(deepCopyMap(ms.h, n.Raw), LAMBDA r :
         [h |-> r.h,
          v |-> [n EXCEPT !.Style = st.a, !.ListItem = li.a, !.Level = lv.a,
                          !.Children = cs.a, !.MarkDefs = ms.a, !.Raw = r.a]]))))))

\* the cells a value of type any, a Raw map, a node struct is made of, each
\* with the kind of its content
RECURSIVE ReachAny(_, _)
ReachAny(h, v) ==
    IF v.t = "map"
    THEN {[a |-> v.a[1], kind |-> "map"]}
         \cup UNION {ReachAny(h, h[v.a[1]][k]) : k \in DOMAIN h[v.a[1]]}
    ELSE IF v.t = "list"
    THEN {[a |-> v.a[1], kind |-> "list"]}
         \cup UNION {ReachAny(h, h[v.a[1]][n]) : n \in 1..Len(h[v.a[1]])}
    ELSE {}
ReachRaw(h, a) == IF a = Nil THEN {} ELSE ReachAny(h, RefMap(a))
ReachPtr(a, kind) == IF a = Nil THEN {} ELSE {[a |-> a, kind |-> kind]}
ReachSpan(h, s) == ReachPtr(s.Text, "str") \cup ReachPtr(s.Marks, "marks") \cup ReachRaw(h, s.Raw)
ReachNode(h, n) ==
    ReachPtr(n.Style, "str") \cup ReachPtr(n.ListItem, "str") \cup ReachPtr(n.Level, "int")
    \cup ReachPtr(n.Children, "spans")
    \cup (IF n.Children = Nil THEN {} ELSE UNION {ReachSpan(h, h[n.Children][j]) : j \in 1..Len(h[n.Children])})
    \cup ReachPtr(n.MarkDefs, "mds")
    \cup (IF n.MarkDefs = Nil THEN {} ELSE UNION {ReachRaw(h, h[n.MarkDefs][j].Raw) : j \in 1..Len(h[n.MarkDefs])})
    \cup ReachRaw(h, n.Raw)
\* the cells of the Document (or the *Node) whose backing array is at a
ReachDocument(h, a) ==
    IF a = Nil THEN {}
    ELSE {[a |-> a, kind |-> "nodes"]} \cup UNION {ReachNode(h, h[a][j]) : j \in 1..Len(h[a])}

\* the writes the program can make through a set of cells: to the value
\* behind a pointer, to an element of a slice or a field of it, to an entry of
\* a map, to the Key of a node; and AddSpan on a node
Writes(h, cells) ==
    UNION { IF c.kind \in {"str", "int", "map"} THEN {[a |-> c.a, kind |-> c.kind, j |-> 0]}
            ELSE {[a |-> c.a, kind |-> c.kind, j |-> j] : j \in 1..Len(h[c.a])}
                 \cup (IF c.kind = "nodes"
                       THEN {[a |-> c.a, kind |-> "AddSpan", j |-> j] : j \in 1..Len(h[c.a])}
                       ELSE {})
            : c \in cells }
NoWrite == [a |-> Nil, kind |-> "none", j |-> 0]
Changed == <<"changed">>

\* (*Node).AddSpan("changed") on the j-th node of the array at a
AddSpanAt(h, a, j) ==
    LET old == IF h[a][j].Children = Nil THEN <<>> ELSE h[h[a][j].Children]
    IN  With(New(h, Changed), LAMBDA text :
        With(New(text.h, <<>>), LAMBDA raw :
        With(New(raw.h, Append(old, [Type |-> <<"span">>, Text |-> text.a,
                                     Marks |-> Nil, Raw |-> raw.a])), LAMBDA arr :
             [arr.h EXCEPT ![a][j].Children = arr.a])))

\* the memory after the write w
Write(h, w) ==
    CASE w.kind = "none" -> h
      [] w.kind = "str" -> [h EXCEPT ![w.a] = Changed]
      [] w.kind = "int" -> [h EXCEPT ![w.a] = 0]
      [] w.kind = "marks" -> [h EXCEPT ![w.a][w.j] = Changed]
      [] w.kind = "spans" -> [h EXCEPT ![w.a][w.j].Type = Changed]
      [] w.kind = "mds" -> [h EXCEPT ![w.a][w.j].Key = Changed]
      [] w.kind = "map" -> [h EXCEPT ![w.a] = MapSet(@, "changed", JStr(Changed))]
      [] w.kind = "list" -> [h EXCEPT ![w.a][w.j] = JStr(Changed)]
      [] w.kind = "nodes" -> [h EXCEPT ![w.a][w.j].Key = Changed]
      [] w.kind = "AddSpan" -> AddSpanAt(h, w.a, w.j)

\* what a callback does to the node it is handed: nothing, or one write to a
\* field of the node, to the value behind a pointer of it, to its spans, or to
\* a map or slice at any depth of its Raw
CallbackWrites(h, a, j) ==
    {NoWrite, [a |-> a, kind |-> "nodes", j |-> j]}
    \cup Writes(h, ReachPtr(h[a][j].Style, "str") \cup ReachPtr(h[a][j].Children, "spans")
                   \cup ReachRaw(h, h[a][j].Raw))

-----------------------------------------------------------------------------
(* Clone, Filter and Transform in memory, and writes after them *)

MaxMutations == 1

\* the Documents copied
CopyPlainNode == AddSpan(NewBlock(<<"h1">>), <<"Content">>, Slice(<<>>))
CopyDocs ==
    { Slice(<<TravDecodedNode>>), Slice(<<CopyPlainNode, TravDecodedNode>>),
      Slice(<<NewNode(<<"image">>)>>) }

\* original.Clone() for a node of the Document
CallClone ==
    /\ pc = "idle"
    /\ \E k \in 1..Len(doc.v) :
          \E c \in {CloneAt(heap, heap[refs.doc][k])} :
             \E p \in {New(c.h, <<c.v>>)} :
                /\ heap' = p.h
                /\ refs' = [refs EXCEPT !.copy = p.a]
                /\ res' = LoadDocument(heap', p.a)
    /\ pc' = "cloned"
    /\ UNCHANGED <<codec, val, round, i, doc, doc1, fn, calls, blockCount>>

\* Filter(doc, pred): result := make(Document, 0)
CallFilterAt ==
    /\ pc = "idle"
    /\ \E r \in {New(heap, <<>>)} :
          heap' = r.h /\ refs' = [refs EXCEPT !.copy = r.a]
    /\ i' = 0
    /\ pc' = "filter"
    /\ UNCHANGED <<codec, val, round, doc, doc1, fn, calls, blockCount, res>>

\* one iteration of Filter's loop: pred(&doc[i]) may write through the
\* pointer it is handed; result = append(result, *doc[i].Clone())
FilterStepAt ==
    /\ pc = "filter"
    /\ i < Len(heap[refs.doc])
    /\ \E keep \in BOOLEAN : \E w \in CallbackWrites(heap, refs.doc, i + 1) :
          \E h1 \in {Write(heap, w)} :
             \E c \in {CloneAt(h1, h1[refs.doc][i + 1])} :
                heap' = IF keep THEN [c.h EXCEPT ![refs.copy] = Append(@, c.v)] ELSE h1
    /\ i' = i + 1
    /\ UNCHANGED <<codec, val, pc, round, doc, doc1, fn, calls, blockCount, res, refs>>

\* return result: from here on doc and res are the values of the source and
\* of the result as the program last left them
FilterReturnAt ==
    /\ pc = "filter"
    /\ i = Len(heap[refs.doc])
    /\ pc' = "filtered"
    /\ doc' = LoadDocument(heap, refs.doc)
    /\ res' = LoadDocument(heap, refs.copy)
    /\ UNCHANGED <<codec, val, mem, round, i, doc1, fn, calls, blockCount>>

\* Transform(doc, fn): result := make(Document, 0, len(doc))
CallTransformAt ==
    /\ pc = "idle"
    /\ \E r \in {New(heap, <<>>)} :
          heap' = r.h /\ refs' = [refs EXCEPT !.copy = r.a]
    /\ i' = 0
    /\ pc' = "transform"
    /\ UNCHANGED <<codec, val, round, doc, doc1, fn, calls, blockCount, res>>

\* one iteration of Transform's loop: fn(doc[i].Clone()) may write through
\* the pointer it is handed and returns it or nil; result = append(result,
\* *transformed)
TransformStepAt ==
    /\ pc = "transform"
    /\ i < Len(heap[refs.doc])
    /\ \E keep \in BOOLEAN :
          \E c \in {CloneAt(heap, heap[refs.doc][i + 1])} :
             \E p \in {New(c.h, <<c.v>>)} :
                \E w \in CallbackWrites(p.h, p.a, 1) :
                   \E h1 \in {Write(p.h, w)} :
                      heap' = IF keep THEN [h1 EXCEPT ![refs.copy] = Append(@, h1[p.a][1])]
                              ELSE h1
    /\ i' = i + 1
    /\ UNCHANGED <<codec, val, pc, round, doc, doc1, fn, calls, blockCount, res, refs>>

\* return result
TransformReturnAt ==
    /\ pc = "transform"
    /\ i = Len(heap[refs.doc])
    /\ pc' = "transformed"
    /\ doc' = LoadDocument(heap, refs.doc)
    /\ res' = LoadDocument(heap, refs.copy)
    /\ UNCHANGED <<codec, val, mem, round, i, doc1, fn, calls, blockCount>>

\* the program writes through the copy
MutateCopy ==
    /\ pc \in {"cloned", "filtered"}
    /\ Len(calls) < MaxMutations
    /\ \E w \in Writes(heap, ReachDocument(heap, refs.copy)) :
          /\ heap' = Write(heap, w)
          /\ res' = LoadDocument(heap', refs.copy)
          /\ calls' = Append(calls, [side |-> "copy", w |-> w])
    /\ UNCHANGED <<codec, val, pc, round, i, doc, doc1, fn, blockCount, refs>>

\* the program writes through the original
MutateOriginal ==
    /\ pc \in {"cloned", "filtered"}
    /\ Len(calls) < MaxMutations
    /\ \E w \in Writes(heap, ReachDocument(heap, refs.doc)) :
          /\ heap' = Write(heap, w)
          /\ doc' = LoadDocument(heap', refs.doc)
          /\ calls' = Append(calls, [side |-> "original", w |-> w])
    /\ UNCHANGED <<codec, val, pc, round, i, doc1, fn, blockCount, res, refs>>

InitCopy ==
    /\ input = Text("empty", <<>>)
    /\ src = input
    /\ pc = "idle"
    /\ round = 1
    /\ i = 0
    /\ doc \in CopyDocs
    /\ err = NoError
    /\ examined = {}
    /\ doc1 = doc
    /\ out = Text("empty", <<>>)
    /\ opts = <<>>
    /\ errs = <<>>
    /\ errs0 = <<>>
    /\ fn = <<>>
    /\ calls = <<>>
    /\ blockCount = 0
    /\ res = NilDocument
    /\ \E s \in {StoreDocument(<<>>, doc)} :
          heap = s.h /\ refs = [doc |-> s.a, copy |-> Nil]

NextCopy ==
    \/ CallClone
    \/ CallFilterAt
    \/ FilterStepAt
    \/ FilterReturnAt
    \/ CallTransformAt
    \/ TransformStepAt
    \/ TransformReturnAt
    \/ MutateCopy
    \/ MutateOriginal

SpecCopy == InitCopy /\ [][NextCopy]_vars

-----------------------------------------------------------------------------
(* Concurrent calls of Filter and Transform on one Document *)

MaxCalls == 2
Callers == 1..MaxCalls

\* the Documents shared by the callers
SharedDocs == {Slice(<<TravDecodedNode>>), Slice(<<CopyPlainNode, TravDecodedNode>>)}

\* caller p calls Filter(doc, pred) with a predicate that only reads
GoFilter ==
    \E p \in Callers :
        /\ pc[p] = "idle"
        /\ \E f \in [1..Len(doc.v) -> BOOLEAN] : fn' = [fn EXCEPT ![p] = f]
        /\ calls' = [calls EXCEPT ![p] = "Filter"]
        /\ \E r \in {New(heap, <<>>)} :
              heap' = r.h /\ refs' = [refs EXCEPT !.copy[p] = r.a]
        /\ i' = [i EXCEPT ![p] = 0]
        /\ pc' = [pc EXCEPT ![p] = "filter"]
        /\ UNCHANGED <<codec, val, round, doc, doc1, blockCount, res>>

\* "if pred(&doc[i])"
GoFilterPred ==
    \E p \in Callers :
        /\ pc[p] = "filter"
        /\ i[p] < Len(heap[refs.doc])
        /\ IF fn[p][i[p] + 1]
           THEN pc' = [pc EXCEPT ![p] = "append"] /\ UNCHANGED i
           ELSE i' = [i EXCEPT ![p] = @ + 1] /\ UNCHANGED pc
        /\ UNCHANGED <<codec, val, mem, round, doc, doc1, fn, calls, blockCount, res>>

\* "result = append(result, *doc[i].Clone())"
GoFilterAppend ==
    \E p \in Callers :
        /\ pc[p] = "append"
        /\ \E c \in {CloneAt(heap, heap[refs.doc][i[p] + 1])} :
              heap' = [c.h EXCEPT ![refs.copy[p]] = Append(@, c.v)]
        /\ i' = [i EXCEPT ![p] = @ + 1]
        /\ pc' = [pc EXCEPT ![p] = "filter"]
        /\ UNCHANGED <<codec, val, round, doc, doc1, fn, calls, blockCount, res, refs>>

\* caller p calls Transform(doc, fn) with a function that writes only to the
\* node it is handed
GoTransform ==
    \E p \in Callers :
        /\ pc[p] = "idle"
        /\ \E f \in TransformFns(doc) : fn' = [fn EXCEPT ![p] = f]
        /\ calls' = [calls EXCEPT ![p] = "Transform"]
        /\ \E r \in {New(heap, <<>>)} :
              heap' = r.h /\ refs' = [refs EXCEPT !.copy[p] = r.a]
        /\ i' = [i EXCEPT ![p] = 0]
        /\ pc' = [pc EXCEPT ![p] = "transform"]
        /\ UNCHANGED <<codec, val, round, doc, doc1, blockCount, res>>

\* mutant: fn is handed &doc[i]
GoTransformNoClone ==
    \E p \in Callers :
        /\ pc[p] = "transform"
        /\ i[p] < Len(heap[refs.doc])
        /\ refs' = [refs EXCEPT !.arg[p] = [a |-> refs.doc, j |-> i[p] + 1]]
        /\ pc' = [pc EXCEPT ![p] = "fn"]
        /\ UNCHANGED <<codec, val, heap, round, i, doc, doc1, fn, calls, blockCount, res>>

\* "doc[i].Clone()", the argument of fn
GoTransformClone ==
    \E p \in Callers :
        /\ pc[p] = "transform"
        /\ i[p] < Len(heap[refs.doc])
        /\ \E c \in {CloneAt(heap, heap[refs.doc][i[p] + 1])} :
              \E n \in {New(c.h, <<c.v>>)} :
                 /\ heap' = n.h
                 /\ refs' = [refs EXCEPT !.arg[p] = [a |-> n.a, j |-> 1]]
        /\ pc' = [pc EXCEPT ![p] = "fn"]
        /\ UNCHANGED <<codec, val, round, i, doc, doc1, fn, calls, blockCount, res>>

\* fn runs: it returns nil, or the node it was handed, the latter perhaps
\* after setting its Style; "result = append(result, *transformed)"
GoTransformFn ==
    \E p \in Callers :
        /\ pc[p] = "fn"
        /\ LET arg == refs.arg[p]
               ret == fn[p][i[p] + 1]
               st == New(heap, <<"h3">>)
               h1 == IF ret = "restyled" THEN [st.h EXCEPT ![arg.a][arg.j].Style = st.a] ELSE heap
           IN  heap' = IF ret = "nil" THEN h1
                       ELSE [h1 EXCEPT ![refs.copy[p]] = Append(@, h1[arg.a][arg.j])]
        /\ i' = [i EXCEPT ![p] = @ + 1]
        /\ pc' = [pc EXCEPT ![p] = "transform"]
        /\ UNCHANGED <<codec, val, round, doc, doc1, fn, calls, blockCount, res, refs>>

\* "return result" of Filter and of Transform
GoReturn ==
    \E p \in Callers :
        /\ pc[p] \in {"filter", "transform"}
        /\ i[p] = Len(heap[refs.doc])
        /\ res' = [res EXCEPT ![p] = LoadDocument(heap, refs.copy[p])]
        /\ pc' = [pc EXCEPT ![p] = "done"]
        /\ UNCHANGED <<codec, val, mem, round, i, doc, doc1, fn, calls, blockCount>>

InitConcurrent ==
    /\ input = Text("empty", <<>>)
    /\ src = input
    /\ pc = [p \in Callers |-> "idle"]
    /\ round = 1
    /\ i = [p \in Callers |-> 0]
    /\ doc \in SharedDocs
    /\ err = NoError
    /\ examined = {}
    /\ doc1 = doc
    /\ out = Text("empty", <<>>)
    /\ opts = <<>>
    /\ errs = <<>>
    /\ errs0 = <<>>
    /\ fn = [p \in Callers |-> <<>>]
    /\ calls = [p \in Callers |-> "none"]
    /\ blockCount = 0
    /\ res = [p \in Callers |-> NilDocument]
    /\ \E s \in {StoreDocument(<<>>, doc)} :
           /\ heap = s.h
           /\ refs = [doc |-> s.a, size |-> Len(s.h),
                      copy |-> [p \in Callers |-> Nil],
                      arg |-> [p \in Callers |-> [a |-> Nil, j |-> 0]]]

NextConcurrent ==
    \/ GoFilter
    \/ GoFilterPred
    \/ GoFilterAppend
    \/ GoTransform
    \/ GoTransformClone
    \/ GoTransformFn
    \/ GoReturn

SpecConcurrent == InitConcurrent /\ [][NextConcurrent]_vars

-----------------------------------------------------------------------------
(* Vocabulary of the properties *)

Returned1 == pc = "returned" /\ round = 1
Returned2 == pc = "returned" /\ round = 2
Encoded == round = 2 /\ pc = "start"

IsObj(w) == w.t = "obj"
Has(w, k) == IsObj(w) /\ k \in DOMAIN w.o
HasArr(w, k) == Has(w, k) /\ w.o[k].t = "arr"

\* the top-level elements of a JSON text, and the spans and markDefs below them
ElemIdx(t) == 1..Len(t.elems)
KidIdx(w, k) == IF HasArr(w, k) THEN 1..Len(w.o[k].a) ELSE {}
Kid(w, k, j) == w.o[k].a[j]
NodePath(n) == Index(<<>>, n - 1)
KidPath(n, k, j) == Index(Field(NodePath(n), k), j - 1)

TypeAbsent(w) == IsObj(w) /\ "_type" \notin DOMAIN w.o
TypeValid(w) == Has(w, "_type") /\ w.o["_type"].t = "str" /\ w.o["_type"].s # <<>>
TypePresentInvalid(w) == Has(w, "_type") /\ ~TypeValid(w)

\* every run of parseNode on top-level element n of text t succeeds / fails
ElemOK(t, n) ==
    /\ t.elems[n].t # "bad"
    /\ \A r \in parseNode(t.elems[n], NodePath(n)) : r.ok
ElemFails(t, n) == ~ElemOK(t, n)

\* JSON values compared as values: strings by their decoded content, integer
\* numbers by their value, objects regardless of key order
RECURSIVE Canon(_)
Canon(w) ==
    CASE w.t = "str" -> JStr(Unquote(w.s))
      [] w.t = "num" -> IF Int64(w.s[1]).ok THEN JNum(FormatInt(Int64(w.s[1]).v)) ELSE w
      [] w.t = "arr" -> JArr([n \in 1..Len(w.a) |-> Canon(w.a[n])])
      [] w.t = "obj" -> JObj([k \in DOMAIN w.o |-> Canon(w.o[k])])
      [] OTHER -> w
ValueEqual(t1, t2) ==
    /\ t1.top = t2.top
    /\ Len(t1.elems) = Len(t2.elems)
    /\ \A n \in 1..Len(t1.elems) : Canon(t1.elems[n]) = Canon(t2.elems[n])

HTMLEscapes == {"\\u003c", "\\u003e", "\\u0026"}
RECURSIVE HasHTMLEscape(_)
HasHTMLEscape(w) ==
    CASE w.t = "str" -> \E n \in 1..Len(w.s) : w.s[n] \in HTMLEscapes
      [] w.t = "arr" -> \E n \in 1..Len(w.a) : HasHTMLEscape(w.a[n])
      [] w.t = "obj" -> \E k \in DOMAIN w.o : HasHTMLEscape(w.o[k])
      [] OTHER -> FALSE

-----------------------------------------------------------------------------
(* Properties *)

\* C1: round-trip law: for every Document D returned by a successful Decode,
\* Decode(Encode(D)) succeeds and returns a Document equal to D.
C1_RoundTrip == Returned2 => (err = NoError /\ doc = doc1)

\* the same law restricted to Documents with at least one node
C1_RoundTripNonEmpty == (Returned2 /\ ~doc1.nil) => (err = NoError /\ doc = doc1)

\* C2: decode then encode is lossless at the JSON level: Encode(Decode(J)) is
\* value-equal to J for every J that Decode accepts.
C2_Lossless == Encoded => ValueEqual(out, input)

\* C3: every Document that Encode writes, built by the helper functions and
\* direct writes included, is decoded back without error to a Document with
\* the same nodes.
C3_BuiltRoundTrip == Returned2 => (err = NoError /\ doc.v = doc1.v)

\* C4: the bytes written by Encode never hold the escapes of '<', '>', '&'.
C4_NoHTMLEscapes == Encoded => \A n \in 1..Len(out.elems) : ~HasHTMLEscape(out.elems[n])

\* C5: every node, span and markDef needs a _type that is a non-empty string:
\* a successful Decode implies it of every entity of the input and leaves a
\* non-empty Type in every entity of the Document; an entity without _type
\* makes Decode fail with MissingType, one whose _type is null, not a string
\* or empty with InvalidType, at the entity's path and with its op (stated of
\* any error reported at an entity, and of the entity Decode reaches first).
SpanWire(w, j) == MarshalAny(Unmarshal(Kid(w, "children", j)), MarshalEscapeHTML)
MarkDefWire(w, j) == MarshalAny(Unmarshal(Kid(w, "markDefs", j)), MarshalEscapeHTML)
TypeErr(w) == IF TypeAbsent(w) THEN ErrMissingType ELSE ErrInvalidType

\* no field of top-level element n other than k makes parseNode fail
OtherFieldsOK(n, k) ==
    \A k2 \in (DOMAIN input.elems[n].o) \ {k} :
        \A r \in parseNodeField(Node, k2, Unmarshal(input.elems[n].o[k2]), NodePath(n)) : r.ok

\* field k of top-level element n is the first thing Decode can fail on
NodeFieldReached(n, k) ==
    /\ \A m \in 1..(n - 1) : ElemOK(input, m)
    /\ TypeValid(input.elems[n])
    /\ k \in DOMAIN input.elems[n].o
    /\ OtherFieldsOK(n, k)
SpanReached(n, j) ==
    /\ NodeFieldReached(n, "children")
    /\ j \in KidIdx(input.elems[n], "children")
    /\ \A j2 \in 1..(j - 1) :
          \A r \in parseSpan(SpanWire(input.elems[n], j2), KidPath(n, "children", j2)) : r.ok
MarkDefReached(n, j) ==
    /\ NodeFieldReached(n, "markDefs")
    /\ j \in KidIdx(input.elems[n], "markDefs")
    /\ \A j2 \in 1..(j - 1) :
          parseMarkDef(MarkDefWire(input.elems[n], j2), KidPath(n, "markDefs", j2)).ok

DocTypesNonEmpty(d) ==
    \A n \in 1..Len(d.v) :
        /\ d.v[n].Type # <<>>
        /\ \A j \in 1..Len(d.v[n].Children.v) : d.v[n].Children.v[j].Type # <<>>
        /\ \A j \in 1..Len(d.v[n].MarkDefs.v) : d.v[n].MarkDefs.v[j].Type # <<>>

InputTypesValid ==
    \A n \in ElemIdx(input) :
        /\ TypeValid(input.elems[n])
        /\ \A j \in KidIdx(input.elems[n], "children") : TypeValid(Kid(input.elems[n], "children", j))
        /\ \A j \in KidIdx(input.elems[n], "markDefs") : TypeValid(Kid(input.elems[n], "markDefs", j))

C5_TypeRequired ==
    /\ (pc = "returned" /\ err = NoError) => DocTypesNonEmpty(doc)
    /\ (Returned1 /\ err = NoError) => InputTypesValid
    /\ Returned1 =>
        \A n \in ElemIdx(input) :
            LET w == input.elems[n] IN
            /\ (IsObj(w) /\ err.Path = NodePath(n)) =>
                    ~TypeValid(w) /\ err = wrap("node", NodePath(n), TypeErr(w))
            /\ (IsObj(w) /\ ~TypeValid(w) /\ \A m \in 1..(n - 1) : ElemOK(input, m)) =>
                    err = wrap("node", NodePath(n), TypeErr(w))
            /\ \A j \in KidIdx(w, "children") :
                LET c == Kid(w, "children", j) IN
                /\ (IsObj(c) /\ err.Path = KidPath(n, "children", j)) =>
                        ~TypeValid(c) /\ err = wrap("span", KidPath(n, "children", j), TypeErr(c))
                /\ (IsObj(c) /\ ~TypeValid(c) /\ SpanReached(n, j)) =>
                        err = wrap("span", KidPath(n, "children", j), TypeErr(c))
            /\ \A j \in KidIdx(w, "markDefs") :
                LET c == Kid(w, "markDefs", j) IN
                /\ (IsObj(c) /\ err.Path = KidPath(n, "markDefs", j)) =>
                        ~TypeValid(c) /\ err = wrap("markDef", KidPath(n, "markDefs", j), TypeErr(c))
                /\ (IsObj(c) /\ ~TypeValid(c) /\ MarkDefReached(n, j)) =>
                        err = wrap("markDef", KidPath(n, "markDefs", j), TypeErr(c))

\* a span without _type, the first failure of its document, has been rejected
\* with MissingType at its path
C5_Witness ==
    /\ Returned1
    /\ err = wrap("span", <<"[1]", ".children", "[0]">>, ErrMissingType)
    /\ TypeAbsent(Kid(input.elems[2], "children", 1))

\* C6: an explicit null in a recognized field other than _type never makes
\* Decode fail, leaves the typed slot unset, is kept in Raw as null and is
\* written by Encode as null; an absent field has no Raw entry and is absent
\* from the output.
NodeNullFields == {"_key", "style", "children", "markDefs", "listItem", "level"}
SpanNullFields == {"text", "marks"}
MarkDefNullFields == {"_key"}
IsNullAt(w, k) == Has(w, k) /\ w.o[k].t = "null"

NodeSlotUnset(nd, k) ==
    CASE k = "_key" -> nd.Key = <<>>
      [] k = "style" -> nd.Style.nil
      [] k = "children" -> nd.Children.nil
      [] k = "markDefs" -> nd.MarkDefs.nil
      [] k = "listItem" -> nd.ListItem.nil
      [] k = "level" -> nd.Level.nil
SpanSlotUnset(sp, k) ==
    CASE k = "text" -> sp.Text.nil
      [] k = "marks" -> sp.Marks.nil

\* entity e decoded from w and written as o treats field k as C6 says
NullKept(w, raw, unset, o, k) ==
    /\ IsNullAt(w, k) =>
          /\ unset
          /\ k \in DOMAIN raw /\ raw[k] = JNull
          /\ Has(o, k) /\ o.o[k] = JNull
    /\ ~Has(w, k) => (k \notin DOMAIN raw /\ ~Has(o, k))

C6_NullPreserved ==
    /\ Encoded =>
        \A n \in ElemIdx(input) :
            LET w == input.elems[n]
                nd == doc1.v[n]
                o == out.elems[n]
            IN  /\ \A k \in NodeNullFields : NullKept(w, nd.Raw, NodeSlotUnset(nd, k), o, k)
                /\ \A j \in KidIdx(w, "children") :
                      \A k \in SpanNullFields :
                          NullKept(Kid(w, "children", j), nd.Children.v[j].Raw,
                                   SpanSlotUnset(nd.Children.v[j], k), Kid(o, "children", j), k)
                /\ \A j \in KidIdx(w, "markDefs") :
                      \A k \in MarkDefNullFields :
                          NullKept(Kid(w, "markDefs", j), nd.MarkDefs.v[j].Raw,
                                   nd.MarkDefs.v[j].Key = <<>>, Kid(o, "markDefs", j), k)
    /\ Returned1 =>
        \A n \in ElemIdx(input) :
            /\ \A k \in NodeNullFields :
                  (IsNullAt(input.elems[n], k) /\ NodeFieldReached(n, k)) =>
                        (err = NoError \/ err.Path[1] # NodePath(n)[1])
            /\ \A j \in KidIdx(input.elems[n], "children") :
                  \A k \in SpanNullFields :
                      (IsNullAt(Kid(input.elems[n], "children", j), k) /\ err # NoError) =>
                            err.Path # Field(KidPath(n, "children", j), k)

\* a null field of a node and a null text of one of its spans have been decoded
\* and written back as null
C6_Witness ==
    /\ Encoded
    /\ \E n \in ElemIdx(input) :
          /\ \E k \in NodeNullFields : IsNullAt(input.elems[n], k) /\ IsNullAt(out.elems[n], k)
          /\ \E j \in KidIdx(input.elems[n], "children") :
                /\ IsNullAt(Kid(input.elems[n], "children", j), "text")
                /\ IsNullAt(Kid(out.elems[n], "children", j), "text")

\* C7: in a decoded Document no known field is both in its typed slot and in
\* Raw, and Raw never has an entry for _type.
C7_TypedXorRaw ==
    (pc = "returned" /\ err = NoError) =>
        \A n \in 1..Len(doc.v) :
            LET nd == doc.v[n] IN
            /\ "_type" \notin DOMAIN nd.Raw
            /\ \A k \in NodeNullFields : ~NodeSlotUnset(nd, k) => k \notin DOMAIN nd.Raw
            /\ \A j \in 1..Len(nd.Children.v) :
                  /\ "_type" \notin DOMAIN nd.Children.v[j].Raw
                  /\ \A k \in SpanNullFields :
                        ~SpanSlotUnset(nd.Children.v[j], k) => k \notin DOMAIN nd.Children.v[j].Raw
            /\ \A j \in 1..Len(nd.MarkDefs.v) :
                  /\ "_type" \notin DOMAIN nd.MarkDefs.v[j].Raw
                  /\ nd.MarkDefs.v[j].Key # <<>> => "_key" \notin DOMAIN nd.MarkDefs.v[j].Raw

\* a Document has been decoded that holds a markDef with a typed key and a raw
\* payload, in a node that uses both a typed slot and Raw
C7_Witness ==
    /\ Returned1
    /\ err = NoError
    /\ \E n \in 1..Len(doc.v) :
          /\ DOMAIN doc.v[n].Raw # {}
          /\ \E j \in 1..Len(doc.v[n].MarkDefs.v) :
                doc.v[n].MarkDefs.v[j].Key # <<>> /\ DOMAIN doc.v[n].MarkDefs.v[j].Raw # {}

\* C8, amended: marks strictness: a span whose marks is present, not null, and
\* either not an array or an array with a non-string element always makes
\* Decode fail; the value is never demoted to Raw; and when that span's marks is
\* what Decode fails on, the error is InvalidMarks, op span, path
\* [i].children[j].marks.  A marks that is null is no failure (it is kept in Raw).
BadMarks(c) ==
    /\ Has(c, "marks")
    /\ c.o["marks"].t # "null"
    /\ \/ c.o["marks"].t # "arr"
       \/ \E m \in 1..Len(c.o["marks"].a) : c.o["marks"].a[m].t # "str"
MarksErr(n, j) == wrap("span", Field(KidPath(n, "children", j), "marks"), ErrInvalidMarks)

C8_MarksStrict ==
    /\ Returned1 =>
        \A n \in ElemIdx(input) : \A j \in KidIdx(input.elems[n], "children") :
            LET c == Kid(input.elems[n], "children", j) IN
            /\ BadMarks(c) => err # NoError
            /\ (BadMarks(c) /\ TypeValid(c) /\ SpanReached(n, j)) => err = MarksErr(n, j)
            /\ err.Path = Field(KidPath(n, "children", j), "marks") =>
                    BadMarks(c) /\ err = MarksErr(n, j)
    /\ (pc = "returned" /\ err = NoError) =>
        \A n \in 1..Len(doc.v) : \A j \in 1..Len(doc.v[n].Children.v) :
            LET raw == doc.v[n].Children.v[j].Raw IN
            "marks" \in DOMAIN raw => raw["marks"] = JNull

\* C8 as stated: a span whose marks is present and is not an array, or is an
\* array with a non-string element, always makes Decode fail.
C8_MarksNonArray ==
    Returned1 =>
        \A n \in ElemIdx(input) : \A j \in KidIdx(input.elems[n], "children") :
            LET c == Kid(input.elems[n], "children", j) IN
            (/\ Has(c, "marks")
             /\ \/ c.o["marks"].t # "arr"
                \/ \E m \in 1..Len(c.o["marks"].a) : c.o["marks"].a[m].t # "str")
            => err # NoError

\* the second span of a block has marks [123] next to other fields, and Decode
\* has failed on it
C8_Witness ==
    /\ Returned1
    /\ err = MarksErr(1, 2)
    /\ BadMarks(Kid(input.elems[1], "children", 2))
    /\ Has(Kid(input.elems[1], "children", 2), "_type")

LevelOf(n) == input.elems[n].o["level"]
LevelErr(n) == wrap("node", Field(NodePath(n), "level"), ErrInvalidNumber)

\* C9 as stated: a level that is present, non-null and cannot be parsed as an
\* integer makes Decode fail with InvalidNumber (op node, path [i].level) when
\* it is what Decode fails on, and is never stored in Raw.
C9_LevelUnparseable ==
    Returned1 =>
        \A n \in ElemIdx(input) :
            (/\ NodeFieldReached(n, "level")
             /\ LevelOf(n).t # "null"
             /\ ~(LevelOf(n).t = "num" /\ Int64(LevelOf(n).s[1]).ok))
            => err = LevelErr(n)

\* C9, amended: a level that is a JSON number whose text is not an integer
\* makes Decode fail: with InvalidNumber (op node, path [i].level) when it is
\* what Decode fails on, and never stored in Raw; a level that is present,
\* non-null and not a JSON number is no failure: it is stored in Raw unchanged.
C9_LevelBadNumber ==
    /\ Returned1 =>
        \A n \in ElemIdx(input) :
            /\ (Has(input.elems[n], "level") /\ LevelOf(n).t = "num"
                    /\ ~Int64(LevelOf(n).s[1]).ok) => err # NoError
            /\ (NodeFieldReached(n, "level") /\ LevelOf(n).t = "num"
                    /\ ~Int64(LevelOf(n).s[1]).ok) => err = LevelErr(n)
            /\ err.Path = Field(NodePath(n), "level") =>
                    (LevelOf(n).t = "num" /\ ~Int64(LevelOf(n).s[1]).ok /\ err = LevelErr(n))
            /\ (NodeFieldReached(n, "level") /\ LevelOf(n).t \notin {"null", "num"}) =>
                    (err = NoError \/ err.Path[1] # NodePath(n)[1])
    /\ (Returned1 /\ err = NoError) =>
        \A n \in 1..Len(doc.v) :
            /\ "level" \in DOMAIN doc.v[n].Raw => doc.v[n].Raw["level"].t # "num"
            /\ (Has(input.elems[n], "level") /\ LevelOf(n).t \notin {"null", "num"}) =>
                    (doc.v[n].Level.nil /\ "level" \in DOMAIN doc.v[n].Raw
                        /\ doc.v[n].Raw["level"] = Unmarshal(LevelOf(n)))

\* the second node has level 1.5 or an integer beyond 64 bits, and Decode has
\* failed on it
C9_Witness ==
    /\ Returned1
    /\ err = LevelErr(2)
    /\ LevelOf(2).t = "num"

\* C10: fail-fast: elements are handed to parseNode in index order; if an
\* element fails, Decode returns the error of the lowest-index failing
\* element (its path starts with that element's [i]) and a nil Document, and
\* no later element is examined.
FailingElems == {n \in ElemIdx(src) : ElemFails(src, n)}
FirstFailing == CHOOSE n \in FailingElems : \A m \in FailingElems : n <= m

C10_FailFast ==
    /\ examined \subseteq 0..i
    /\ pc = "loop" => (examined = 0..(i - 1) /\ Len(doc.v) = i)
    /\ (pc = "returned" /\ err # NoError) => doc = NilDocument
    /\ (pc = "returned" /\ FailingElems # {}) =>
          /\ err # NoError
          /\ doc = NilDocument
          /\ err.Path # <<>>
          /\ err.Path[1] = NodePath(FirstFailing)[1]
          /\ examined \subseteq 0..(FirstFailing - 1)
    /\ (pc = "returned" /\ err # NoError /\ err.Path # <<>>) =>
          \E n \in FailingElems : err.Path[1] = NodePath(n)[1]

\* both elements of a two-element array fail; Decode has returned the first
\* one's error and has not examined the second
C10_Witness ==
    /\ Returned1
    /\ Len(input.elems) = 2
    /\ FailingElems = {1, 2}
    /\ err.Path[1] = "[0]"
    /\ examined = {0}
    /\ doc = NilDocument

\* C11: bad top-level framing is rejected with kind UnexpectedToken and op
\* decode: a top-level value that is not an array, an empty input, and an array
\* whose closing bracket is missing (its elements all being decodable).
C11_BadFraming ==
    Returned1 =>
        /\ input.top \in {"object", "string", "number", "null", "empty"} =>
              err = wrap("decode", <<>>, ErrUnexpectedToken)
        /\ (input.top = "unclosed" /\ \A n \in ElemIdx(input) : ElemOK(input, n)) =>
              err = wrap("decode", <<>>, ErrUnexpectedToken)

\* the part of C11 about a top-level value that is not an array
C11_NotArray ==
    (Returned1 /\ input.top \in {"object", "string", "number", "null"}) =>
        err = wrap("decode", <<>>, ErrUnexpectedToken)

\* the empty input and the unclosed array end in the decoder's end-of-input error
C11_EndOfInput ==
    (Returned1 /\ (input.top = "empty"
                   \/ (input.top = "unclosed" /\ \A n \in ElemIdx(input) : ElemOK(input, n)))) =>
        err = wrap("decode", <<>>, EOF)

Ops == {"decode", "node", "span", "markDef"}
TypeKinds == {ErrMissingType, ErrInvalidType}
ObjectKinds == {ErrExpectedObject, UnmarshalTypeError}

\* C12 as stated: every error of Decode has an op of the four and a path of one
\* of the listed forms: [i], [i].children[j], [i].markDefs[j], or one of these
\* extended with .marks or .level.
C12_ListedPaths ==
    (Returned1 /\ err # NoError) =>
        /\ err.Op \in Ops
        /\ err.Err # NoError.Err
        /\ \E n \in ElemIdx(input) :
              \/ err.Path \in {NodePath(n), Field(NodePath(n), "level"), Field(NodePath(n), "marks")}
              \/ \E k \in {"children", "markDefs"} : \E j \in KidIdx(input.elems[n], k) :
                    err.Path \in {KidPath(n, k, j), Field(KidPath(n, k, j), "marks"),
                                  Field(KidPath(n, k, j), "level")}

\* C12, amended: every error of Decode has an op of the four, a kind, and a path
\* that goes with the op and locates what failed:
\*   decode   the empty path (framing) or [i] (element i is malformed JSON);
\*   node     [i] (not an object, or its _type), [i].level (InvalidNumber),
\*            [i].children or [i].markDefs (ExpectedArray: present, not an array);
\*   span     [i].children[j] (not an object, or its _type), or that path
\*            extended with .marks (InvalidMarks);
\*   markDef  [i].markDefs[j] (not an object, or its _type).
C12_ErrorShape ==
    (Returned1 /\ err # NoError) =>
        /\ err.Op \in Ops
        /\ err.Err # NoError.Err
        /\ err.Op = "decode" =>
              \/ err.Path = <<>> /\ err.Err \in {ErrUnexpectedToken, EOF}
              \/ \E n \in ElemIdx(input) :
                    err.Path = NodePath(n) /\ input.elems[n].t = "bad" /\ err.Err = SyntaxError
        /\ err.Op = "node" =>
              \E n \in ElemIdx(input) :
                 LET w == input.elems[n] IN
                 \/ /\ err.Path = NodePath(n)
                    /\ \/ ~IsObj(w) /\ err.Err \in ObjectKinds
                       \/ IsObj(w) /\ ~TypeValid(w) /\ err.Err = TypeErr(w)
                 \/ /\ err.Path = Field(NodePath(n), "level")
                    /\ err.Err = ErrInvalidNumber
                    /\ Has(w, "level") /\ w.o["level"].t = "num"
                 \/ \E k \in {"children", "markDefs"} :
                       /\ err.Path = Field(NodePath(n), k)
                       /\ err.Err = ErrExpectedArray
                       /\ Has(w, k) /\ w.o[k].t \notin {"arr", "null"}
        /\ err.Op = "span" =>
              \E n \in ElemIdx(input) : \E j \in KidIdx(input.elems[n], "children") :
                 LET c == Kid(input.elems[n], "children", j) IN
                 \/ /\ err.Path = KidPath(n, "children", j)
                    /\ \/ ~IsObj(c) /\ err.Err \in ObjectKinds
                       \/ IsObj(c) /\ ~TypeValid(c) /\ err.Err = TypeErr(c)
                 \/ /\ err.Path = Field(KidPath(n, "children", j), "marks")
                    /\ err.Err = ErrInvalidMarks
                    /\ BadMarks(c)
        /\ err.Op = "markDef" =>
              \E n \in ElemIdx(input) : \E j \in KidIdx(input.elems[n], "markDefs") :
                 LET c == Kid(input.elems[n], "markDefs", j) IN
                 /\ err.Path = KidPath(n, "markDefs", j)
                 /\ \/ ~IsObj(c) /\ err.Err \in ObjectKinds
                    \/ IsObj(c) /\ ~TypeValid(c) /\ err.Err = TypeErr(c)

\* Decode has failed on the second span of the second node, which is not an
\* object, with op span at [1].children[1]
C12_Witness ==
    /\ Returned1
    /\ err.Op = "span"
    /\ err.Path = <<"[1]", ".children", "[1]">>
    /\ err.Err \in ObjectKinds

\* the names of the populated typed fields of a node, a span, a markDef
NodePopulated(nd) == {k \in NodeNullFields : ~NodeSlotUnset(nd, k)}
SpanPopulated(sp) == {k \in SpanNullFields : ~SpanSlotUnset(sp, k)}
MarkDefPopulated(md) == IF md.Key # <<>> THEN {"_key"} ELSE {}

\* object o carries the string s under key k
EmitsStr(o, k, s) == o.o[k].t = "str" /\ Unquote(o.o[k].s) = s
\* object o carries under every key of ks the Raw value of that key
EmitsRaw(o, raw, ks) == \A k \in ks : Unmarshal(o.o[k]) = raw[k]

SpanMerged(sp, o) ==
    /\ IsObj(o)
    /\ DOMAIN o.o = (DOMAIN sp.Raw) \cup {"_type"} \cup SpanPopulated(sp)
    /\ EmitsStr(o, "_type", sp.Type)
    /\ ~sp.Text.nil => EmitsStr(o, "text", sp.Text.v)
    /\ ~sp.Marks.nil =>
          /\ o.o["marks"].t = "arr"
          /\ Len(o.o["marks"].a) = Len(sp.Marks.v)
          /\ \A m \in 1..Len(sp.Marks.v) :
                o.o["marks"].a[m].t = "str" /\ Unquote(o.o["marks"].a[m].s) = sp.Marks.v[m]
    /\ EmitsRaw(o, sp.Raw, (DOMAIN sp.Raw) \ ({"_type"} \cup SpanPopulated(sp)))

MarkDefMerged(md, o) ==
    /\ IsObj(o)
    /\ DOMAIN o.o = (DOMAIN md.Raw) \cup {"_type"} \cup MarkDefPopulated(md)
    /\ EmitsStr(o, "_type", md.Type)
    /\ md.Key # <<>> => EmitsStr(o, "_key", md.Key)
    /\ EmitsRaw(o, md.Raw, (DOMAIN md.Raw) \ ({"_type"} \cup MarkDefPopulated(md)))

NodeMerged(nd, o) ==
    /\ IsObj(o)
    /\ DOMAIN o.o = (DOMAIN nd.Raw) \cup {"_type"} \cup NodePopulated(nd)
    /\ EmitsStr(o, "_type", nd.Type)
    /\ nd.Key # <<>> => EmitsStr(o, "_key", nd.Key)
    /\ ~nd.Style.nil => EmitsStr(o, "style", nd.Style.v)
    /\ ~nd.ListItem.nil => EmitsStr(o, "listItem", nd.ListItem.v)
    /\ ~nd.Level.nil => o.o["level"] = JNum(FormatInt(nd.Level.v))
    /\ ~nd.Children.nil =>
          /\ o.o["children"].t = "arr"
          /\ Len(o.o["children"].a) = Len(nd.Children.v)
          /\ \A j \in 1..Len(nd.Children.v) : SpanMerged(nd.Children.v[j], o.o["children"].a[j])
    /\ ~nd.MarkDefs.nil =>
          /\ o.o["markDefs"].t = "arr"
          /\ Len(o.o["markDefs"].a) = Len(nd.MarkDefs.v)
          /\ \A j \in 1..Len(nd.MarkDefs.v) : MarkDefMerged(nd.MarkDefs.v[j], o.o["markDefs"].a[j])
    /\ EmitsRaw(o, nd.Raw, (DOMAIN nd.Raw) \ ({"_type"} \cup NodePopulated(nd)))

\* C13: encoder merge rule: the object written for a node, span or markDef has
\* exactly the keys of Raw, _type and the populated typed fields; _type is the
\* typed Type; a populated typed field is written with its typed value also
\* when Raw has an entry of that name; the other keys carry their Raw value.
C13_MergeRule ==
    Encoded =>
        /\ Len(out.elems) = Len(doc1.v)
        /\ \A n \in 1..Len(doc1.v) : NodeMerged(doc1.v[n], out.elems[n])

\* a node has been written whose Raw holds _type and level next to a populated
\* Level, and a span and a markDef with a Raw entry
C13_Witness ==
    /\ Encoded
    /\ Len(doc1.v) = 1
    /\ {"_type", "level", "custom"} \subseteq DOMAIN doc1.v[1].Raw
    /\ ~doc1.v[1].Level.nil
    /\ Len(doc1.v[1].Children.v) > 0
    /\ \E j \in 1..Len(doc1.v[1].MarkDefs.v) : "_key" \in DOMAIN doc1.v[1].MarkDefs.v[j].Raw

-----------------------------------------------------------------------------
(* Properties of validation *)

Validated == pc = "validated"
IsBlockNode(n) == n.Type = <<"block">>
ChildPath(ni, j) == <<"[" \o ToString(ni) \o "]", ".children", "[" \o ToString(j) \o "]">>
MarkDefPath(ni, j) == <<"[" \o ToString(ni) \o "]", ".markDefs", "[" \o ToString(j) \o "]">>
TopPath(ni) == <<"[" \o ToString(ni) \o "]">>

\* the number of diagnostics at a path, and of those with a given message
CountAt(path) == Cardinality({a \in 1..Len(errs) : errs[a].Path = path})
CountMsg(path, msg) ==
    Cardinality({a \in 1..Len(errs) : errs[a].Path = path /\ errs[a].Message = msg})

\* what each entity has to be reported for, taken by itself
BlockKeys(n) == {n.MarkDefs.v[j].Key : j \in 1..Len(n.MarkDefs.v)}
UnresolvedMarks(n, c) == {m \in 1..Len(c.Marks.v) : c.Marks.v[m] \notin BlockKeys(n)}
NodeOwn(n, o) ==
    IF n.Type = <<>> THEN 1 ELSE IF o.RequireKeys /\ n.Key = <<>> THEN 1 ELSE 0
ChildOwn(n, c, o) ==
    IF c.Type = <<>> THEN 1
    ELSE IF c.Type # <<"span">> THEN 0
    ELSE (IF c.Text.nil \/ (c.Text.v = <<>> /\ ~o.AllowEmptyText) THEN 1 ELSE 0)
         + (IF o.CheckMarkDefRefs THEN Cardinality(UnresolvedMarks(n, c)) ELSE 0)
MarkDefOwn(md) == (IF md.Type = <<>> THEN 1 ELSE 0) + (IF md.Key = <<>> THEN 1 ELSE 0)

\* the place of a diagnostic in the document: node, then children before
\* markDefs, then the index below
Section(e) == IF Len(e.Path) = 1 THEN 0 ELSE IF e.Path[2] = ".children" THEN 1 ELSE 2
Below(e, n) ==
    IF Len(e.Path) = 1 THEN 0
    ELSE CHOOSE j \in 0..(Len(n.Children.v) + Len(n.MarkDefs.v)) :
            e.Path[3] = "[" \o ToString(j) \o "]"
NotAfter(e1, e2) ==
    \/ e1.Node < e2.Node
    \/ /\ e1.Node = e2.Node
       /\ \/ Section(e1) < Section(e2)
          \/ /\ Section(e1) = Section(e2)
             /\ Below(e1, doc.v[e1.Node + 1]) <= Below(e2, doc.v[e2.Node + 1])

\* C14: validation accumulates: every top-level node, and in every block every
\* child and every markDef, is reported for exactly what it has to be reported
\* for by itself, whatever was found before; the list is in document order;
\* nothing else is reported.
C14_Accumulates ==
    Validated =>
        /\ \A ni \in 0..(Len(doc.v) - 1) :
              LET n == doc.v[ni + 1] IN
              /\ CountAt(TopPath(ni)) = NodeOwn(n, opts)
              /\ \A j \in 0..(Len(n.Children.v) - 1) :
                    CountAt(ChildPath(ni, j)) =
                        IF IsBlockNode(n) THEN ChildOwn(n, n.Children.v[j + 1], opts) ELSE 0
              /\ \A j \in 0..(Len(n.MarkDefs.v) - 1) :
                    CountAt(MarkDefPath(ni, j)) =
                        IF IsBlockNode(n) THEN MarkDefOwn(n.MarkDefs.v[j + 1]) ELSE 0
        /\ \A a \in 1..Len(errs) :
              /\ errs[a].Node \in 0..(Len(doc.v) - 1)
              /\ errs[a].Path[1] = TopPath(errs[a].Node)[1]
              /\ \/ errs[a].Path = TopPath(errs[a].Node)
                 \/ \E j \in 0..(Len(doc.v[errs[a].Node + 1].Children.v) - 1) :
                       errs[a].Path = ChildPath(errs[a].Node, j)
                 \/ \E j \in 0..(Len(doc.v[errs[a].Node + 1].MarkDefs.v) - 1) :
                       errs[a].Path = MarkDefPath(errs[a].Node, j)
        /\ \A a, b \in 1..Len(errs) : a < b => NotAfter(errs[a], errs[b])

\* Validate has returned exactly two diagnostics for a node with an empty type
\* followed by a block whose only span has no text
C14_Witness ==
    /\ Validated
    /\ round = 1
    /\ Len(doc.v) = 2
    /\ doc.v[1].Type = <<>>
    /\ IsBlockNode(doc.v[2])
    /\ Len(doc.v[2].Children.v) = 1
    /\ doc.v[2].Children.v[1].Type = <<"span">>
    /\ doc.v[2].Children.v[1].Text.nil
    /\ Len(errs) = 2
    /\ errs[1].Path = <<"[0]">>
    /\ errs[2].Path = <<"[1]", ".children", "[0]">>

\* both calls of the validation have returned: errs0 is Validate(doc), errs is
\* ValidateWithOptions(doc, opts)
ValidatedBoth == pc = "validated" /\ round = 2

\* C15: the default options are the most permissive ones: Validate(doc) is
\* ValidateWithOptions(doc, default options), and every diagnostic of
\* Validate(doc) is also reported by ValidateWithOptions(doc, opts), whatever
\* opts is.
C15_DefaultMostPermissive ==
    ValidatedBoth =>
        /\ opts = DefaultOptions => errs = errs0
        /\ \A a \in 1..Len(errs0) : \E b \in 1..Len(errs) : errs[b] = errs0[a]

\* Validate(doc) is ValidateWithOptions(doc, ValidationOptions{}), and as long as
\* AllowEmptyText keeps its default no option removes a diagnostic
C15_DefaultExceptEmptyText ==
    ValidatedBoth =>
        /\ opts = DefaultOptions => errs = errs0
        /\ ~opts.AllowEmptyText => \A a \in 1..Len(errs0) : \E b \in 1..Len(errs) : errs[b] = errs0[a]

\* the children of a block whose Type is "span", as (node index, child index)
SpansOfBlocks ==
    UNION { { <<ni, j>> : j \in { k \in 0..(Len(doc.v[ni + 1].Children.v) - 1) :
                                     doc.v[ni + 1].Children.v[k + 1].Type = <<"span">> } }
            : ni \in { k \in 0..(Len(doc.v) - 1) : IsBlockNode(doc.v[k + 1]) } }
SpanAt(p) == doc.v[p[1] + 1].Children.v[p[2] + 1]
Entries(c, mark) == Cardinality({m \in 1..Len(c.Marks.v) : c.Marks.v[m] = mark})

C16_WitnessOne ==
    /\ Validated
    /\ opts = [DefaultOptions EXCEPT !.CheckMarkDefRefs = TRUE]
    /\ Len(doc.v) = 1
    /\ doc.v[1].MarkDefs = Slice(<<>>)
    /\ Len(doc.v[1].Children.v) = 1
    /\ doc.v[1].Children.v[1].Text = PtrStr(<<"Hi">>)
    /\ doc.v[1].Children.v[1].Marks.v = <<<<"link1">>>>
    /\ Len(errs) = 1

\* C17: AllowEmptyText: for a child of a block whose Type is "span", an absent
\* text is reported under every option setting, an empty text exactly when
\* AllowEmptyText is false, a non-empty text never, and never both diagnostics.
C17_AllowEmptyText ==
    Validated =>
        \A p \in SpansOfBlocks :
            LET c == SpanAt(p)
                missing == CountMsg(ChildPath(p[1], p[2]), <<"span missing text">>)
                empty == CountMsg(ChildPath(p[1], p[2]), <<"span has empty text">>)
            IN  /\ missing = IF c.Text.nil THEN 1 ELSE 0
                /\ empty = IF ~c.Text.nil /\ c.Text.v = <<>> /\ ~opts.AllowEmptyText THEN 1 ELSE 0
                /\ missing + empty <= 1

\* under AllowEmptyText a block with an empty text and a block with an absent
\* text: only the absent one has been reported
C17_Witness ==
    /\ Validated
    /\ opts.AllowEmptyText
    /\ \E p \in SpansOfBlocks :
          /\ SpanAt(p).Text = PtrStr(<<>>)
          /\ CountAt(ChildPath(p[1], p[2])) = 0

-----------------------------------------------------------------------------
(* Properties of traversal *)

\* the first node whose callback returns an error, 0-based; none: -1
Stops == {k \in 1..Len(doc1.v) : fn[k].ret # "nil"}
FirstStop == IF Stops = {} THEN -1 ELSE (CHOOSE k \in Stops : \A m \in Stops : k <= m) - 1
\* the invocations were made for the nodes 0, 1, 2, ... in this order, each
\* with the node that the document has at that index
InIndexOrder ==
    \A c \in 1..Len(calls) : calls[c].Index = c - 1 /\ calls[c].Node = doc1.v[c]
\* what the early exit is: k+1 invocations and the callback's error if node k
\* is the first to return one, one invocation per node and no error otherwise
EarlyExit ==
    IF FirstStop >= 0
    THEN Len(calls) = FirstStop + 1 /\ res = fn[FirstStop + 1].ret
    ELSE Len(calls) = Len(doc1.v) /\ res = "nil"

\* C18: Walk visits the top-level nodes in index order and exits early: when
\* node k is the first whose callback returns an error there were exactly k+1
\* invocations, for the nodes 0..k, and Walk returns that error; when no
\* callback returns an error every node is visited once and Walk returns nil.
C18_WalkEarlyExit ==
    /\ pc \in {"walk", "walked"} => InIndexOrder
    /\ pc = "walked" => EarlyExit

\* Walk over two nodes has returned the error of the first callback, which is
\* not the error the second one would have returned
C18_Witness ==
    /\ pc = "walked"
    /\ Len(doc1.v) = 2
    /\ fn[1].ret = "stop"
    /\ fn[2].ret = "halt"
    /\ Len(calls) = 1
    /\ res = "stop"

\* the number of block-type nodes of the document at indices below index
RECURSIVE BlocksBelow(_)
BlocksBelow(index) ==
    IF index = 0 THEN 0
    ELSE BlocksBelow(index - 1) + (IF IsBlock(doc1.v[index]) THEN 1 ELSE 0)

\* C19: WalkWithContext invokes the callback for node i with Index = i, no
\* Parent, Depth = 0 and BlockCount = the number of block-type nodes at
\* indices strictly less than i, the current node not counted; it visits in
\* index order and exits early exactly as Walk does.
C19_WalkContext ==
    /\ pc \in {"walkctx", "walkedctx"} =>
          /\ InIndexOrder
          /\ \A c \in 1..Len(calls) :
                calls[c].Ctx = [Index |-> c - 1, Parent |-> "nil", Depth |-> 0,
                                BlockCount |-> BlocksBelow(c - 1)]
    /\ pc = "walkedctx" => EarlyExit

\* WalkWithContext has visited a block after a block: the second callback was
\* handed BlockCount 1 although two blocks had been reached
C19_Witness ==
    /\ pc = "walkedctx"
    /\ Len(calls) = 2
    /\ IsBlock(doc1.v[1]) /\ IsBlock(doc1.v[2])
    /\ calls[1].Ctx.BlockCount = 0
    /\ calls[2].Ctx.BlockCount = 1
    /\ blockCount = 2

\* WalkWithContext was stopped by the callback of its first node
C19_WitnessStop ==
    /\ pc = "walkedctx"
    /\ Len(doc1.v) = 2
    /\ Len(calls) = 1
    /\ res = "halt"

\* the entries that nodes 1..k of the document give: keep(j) says whether
\* node j is included and entry(j) is what it contributes
RECURSIVE Selection(_, _, _)
Selection(k, keep, entry) ==
    IF k = 0 THEN <<>>
    ELSE IF keep[k] THEN Append(Selection(k - 1, keep, entry), entry[k])
         ELSE Selection(k - 1, keep, entry)

\* Filter copies the node as the predicate left it
FilterKeeps == [k \in 1..Len(doc1.v) |-> fn[k].keep]
FilterEntries == [k \in 1..Len(doc1.v) |-> Clone(doc.v[k])]
TransformKeeps == [k \in 1..Len(doc1.v) |-> fn[k] # "nil"]
TransformEntries ==
    [k \in 1..Len(doc1.v) |->
        IF fn[k] = "restyled" THEN Restyled(Clone(doc1.v[k])) ELSE Clone(doc1.v[k])]

\* C20: Filter returns one entry per node for which pred holds, in the
\* original order; Transform returns, in input order, one entry per node for
\* which fn returned a node and omits exactly the nodes for which fn returned
\* nil; no included node is reordered, duplicated or dropped.
C20_OrderPreserving ==
    /\ pc \in {"filter", "filtered"} =>
          /\ InIndexOrder
          /\ ~res.nil
          /\ res.v = Selection(i, FilterKeeps, FilterEntries)
    /\ pc = "filtered" => i = Len(doc1.v)
    /\ pc \in {"transform", "transformed"} =>
          /\ \A c \in 1..Len(calls) : calls[c].Index = c - 1
          /\ ~res.nil
          /\ res.v = Selection(i, TransformKeeps, TransformEntries)
    /\ pc = "transformed" => i = Len(doc1.v)

\* Filter has kept both of two different nodes
C20_WitnessFilter ==
    /\ pc = "filtered"
    /\ Len(doc1.v) = 2
    /\ doc1.v[1] # doc1.v[2]
    /\ fn[1].keep /\ fn[2].keep
    /\ res.v = <<Clone(doc.v[1]), Clone(doc.v[2])>>

\* Transform has dropped the first of two different nodes and kept the second
C20_WitnessTransform ==
    /\ pc = "transformed"
    /\ Len(doc1.v) = 2
    /\ doc1.v[1] # doc1.v[2]
    /\ fn[1] = "nil" /\ fn[2] = "same"
    /\ res.v = <<Clone(doc1.v[2])>>

-----------------------------------------------------------------------------
(* Properties of the field shapes *)

NodeSoftFields == {"style", "listItem", "_key", "level"}
\* field k of the node w is present with a value of the wrong shape for its
\* typed slot: not null and not a string, for level not null and not a number
NodeSoft(w, k) ==
    /\ Has(w, k)
    /\ IF k = "level" THEN w.o[k].t \notin {"null", "num"} ELSE w.o[k].t \notin {"null", "str"}
SpanSoft(c) == Has(c, "text") /\ c.o["text"].t \notin {"null", "str"}
MarkDefSoft(c) == Has(c, "_key") /\ c.o["_key"].t \notin {"null", "str"}
\* the value is in raw under k as it came
RawKeeps(raw, w, k) == k \in DOMAIN raw /\ raw[k] = Unmarshal(w.o[k])
\* the error is at or below the path p
ErrUnder(p) == Len(err.Path) >= Len(p) /\ SubSeq(err.Path, 1, Len(p)) = p

\* C24: soft fallback: a style, listItem or _key of a node, a text of a span
\* or a _key of a markDef that is present, not null and not a string, and a
\* level of a node that is present, not null and not a JSON number, is never
\* what Decode fails on (Decode succeeds unless something else fails); in the
\* decoded Document the typed slot is unset and Raw holds the value unchanged
\* under the field's name.
C24_SoftFallback ==
    /\ Returned1 =>
        \A n \in ElemIdx(input) :
            LET w == input.elems[n] IN
            /\ \A k \in NodeSoftFields :
                  /\ (NodeSoft(w, k) /\ NodeFieldReached(n, k)) =>
                        (ElemOK(input, n) /\ ~ErrUnder(NodePath(n)))
                  /\ NodeSoft(w, k) => err.Path # Field(NodePath(n), k)
            /\ \A j \in KidIdx(w, "children") :
                  LET c == Kid(w, "children", j) IN
                  SpanSoft(c) =>
                      /\ err.Path # Field(KidPath(n, "children", j), "text")
                      /\ (TypeValid(c) /\ ~BadMarks(c)) => ~ErrUnder(KidPath(n, "children", j))
            /\ \A j \in KidIdx(w, "markDefs") :
                  LET c == Kid(w, "markDefs", j) IN
                  MarkDefSoft(c) =>
                      /\ err.Path # Field(KidPath(n, "markDefs", j), "_key")
                      /\ TypeValid(c) => ~ErrUnder(KidPath(n, "markDefs", j))
    /\ (Returned1 /\ err = NoError) =>
        \A n \in ElemIdx(input) :
            LET w == input.elems[n]
                nd == doc.v[n]
            IN  /\ \A k \in NodeSoftFields :
                      NodeSoft(w, k) => (NodeSlotUnset(nd, k) /\ RawKeeps(nd.Raw, w, k))
                /\ \A j \in KidIdx(w, "children") :
                      LET c == Kid(w, "children", j) IN
                      SpanSoft(c) =>
                          (nd.Children.v[j].Text.nil /\ RawKeeps(nd.Children.v[j].Raw, c, "text"))
                /\ \A j \in KidIdx(w, "markDefs") :
                      LET c == Kid(w, "markDefs", j) IN
                      MarkDefSoft(c) =>
                          (nd.MarkDefs.v[j].Key = <<>> /\ RawKeeps(nd.MarkDefs.v[j].Raw, c, "_key"))

\* a node with the level "not a number" and a style that is a number has been
\* decoded: both slots are unset and both values are in Raw
C24_Witness ==
    /\ Returned1
    /\ err = NoError
    /\ \E n \in ElemIdx(input) :
          /\ NodeSoft(input.elems[n], "level") /\ NodeSoft(input.elems[n], "style")
          /\ doc.v[n].Level.nil /\ doc.v[n].Style.nil
          /\ doc.v[n].Raw["level"] = JStr(<<"not a number">>)
          /\ doc.v[n].Raw["style"] = JNum("2")

\* a span whose text is a number and a markDef whose _key is a number have been
\* decoded into Raw
C24_WitnessKids ==
    /\ Returned1
    /\ err = NoError
    /\ \E n \in ElemIdx(input) :
          \/ \E j \in KidIdx(input.elems[n], "children") :
                SpanSoft(Kid(input.elems[n], "children", j))
                    /\ doc.v[n].Children.v[j].Raw["text"] = JNum("7")
          \/ \E j \in KidIdx(input.elems[n], "markDefs") :
                MarkDefSoft(Kid(input.elems[n], "markDefs", j))
                    /\ doc.v[n].MarkDefs.v[j].Raw["_key"] = JNum("3")

ArrayFields == {"children", "markDefs"}
\* field k of the node w is present, not null and not an array
NotArray(w, k) == Has(w, k) /\ w.o[k].t \notin {"null", "arr"}
ArrayErr(n, k) == wrap("node", Field(NodePath(n), k), ErrExpectedArray)

\* C25: a children or markDefs of a node that is present, not null and not a
\* JSON array always makes Decode fail; when it is what Decode fails on, the
\* error is ExpectedArray with op node and path [i].children or [i].markDefs;
\* no other value gives that error; and the value is never stored in Raw.
C25_ExpectedArray ==
    /\ Returned1 =>
        \A n \in ElemIdx(input) : \A k \in ArrayFields :
            LET w == input.elems[n] IN
            /\ NotArray(w, k) => err # NoError
            /\ (NotArray(w, k) /\ NodeFieldReached(n, k)) => err = ArrayErr(n, k)
            /\ err.Path = Field(NodePath(n), k) => (NotArray(w, k) /\ err = ArrayErr(n, k))
    /\ (pc = "returned" /\ err = NoError) =>
        \A n \in 1..Len(doc.v) : \A k \in ArrayFields :
            k \in DOMAIN doc.v[n].Raw => doc.v[n].Raw[k] = JNull

\* the second node has a markDefs that is the boolean true, and Decode has
\* failed on it
C25_Witness ==
    /\ Returned1
    /\ Len(input.elems) = 2
    /\ NotArray(input.elems[2], "markDefs")
    /\ input.elems[2].o["markDefs"].t = "bool"
    /\ err = ArrayErr(2, "markDefs")

\* the same for a children that is a string
C25_WitnessChildren ==
    /\ Returned1
    /\ Len(input.elems) = 1
    /\ NotArray(input.elems[1], "children")
    /\ err = ArrayErr(1, "children")

\* the non-object elements Decode reaches first: a top-level element, a child,
\* a markDef, each with the op and the path an error about it carries
NonObjects ==
    { [w |-> input.elems[n], op |-> "node", path |-> NodePath(n)]
      : n \in {m \in ElemIdx(input) : input.elems[m].t # "bad" /\ ~IsObj(input.elems[m])
                                       /\ \A l \in 1..(m - 1) : ElemOK(input, l)} }
    \cup UNION { { [w |-> Kid(input.elems[n], "children", j), op |-> "span",
                    path |-> KidPath(n, "children", j)]
                   : j \in {a \in KidIdx(input.elems[n], "children") :
                               ~IsObj(Kid(input.elems[n], "children", a)) /\ SpanReached(n, a)} }
                 : n \in ElemIdx(input) }
    \cup UNION { { [w |-> Kid(input.elems[n], "markDefs", j), op |-> "markDef",
                    path |-> KidPath(n, "markDefs", j)]
                   : j \in {a \in KidIdx(input.elems[n], "markDefs") :
                               ~IsObj(Kid(input.elems[n], "markDefs", a)) /\ MarkDefReached(n, a)} }
                 : n \in ElemIdx(input) }

\* C26: every element that must be a JSON object is checked for it: a
\* top-level element, a child or a markDef that is any non-object value (null,
\* number, string, boolean, array) makes Decode fail with kind ExpectedObject,
\* with op node, span or markDef and the path of that element.
C26_ExpectedObject ==
    Returned1 => \A e \in NonObjects : err = wrap(e.op, e.path, ErrExpectedObject)

\* what the code does: a non-object element is rejected with its op and path;
\* the kind is ExpectedObject for null and the type error of encoding/json for
\* a number, string, boolean or array
C26_NonObjectRejected ==
    Returned1 =>
        \A e \in NonObjects :
            err = wrap(e.op, e.path, IF e.w.t = "null" THEN ErrExpectedObject ELSE UnmarshalTypeError)

\* Decode has failed on a child that is the number 5
C26_ReachedNumber ==
    /\ Returned1
    /\ \E e \in NonObjects : e.w.t = "num" /\ e.op = "span" /\ err.Path = e.path

-----------------------------------------------------------------------------
(* Properties of the outcome as a function of the input *)

\* the outcomes parseNode can have on top-level element n, one per order in
\* which the fields of the objects are iterated
Outcomes(n) == parseNode(input.elems[n], NodePath(n))
\* the run that has returned agrees with the outcome r of element n
SameOutcome(n, r) ==
    IF err = NoError THEN r.ok /\ doc.v[n] = r.val
    ELSE IF err.Path # <<>> /\ err.Path[1] = NodePath(n)[1] THEN ~r.ok /\ r.err = err
    ELSE r.ok
\* the fields of top-level element n that make parseNode fail by themselves
FailingFields(n) ==
    {k \in DOMAIN input.elems[n].o :
        \E r \in parseNodeField(Node, k, Unmarshal(input.elems[n].o[k]), NodePath(n)) : ~r.ok}

\* C30: Decode is a function of its input: every run on the same bytes has
\* the same outcome, the same Document or an error of the same kind, op and
\* path, also when one object has several fields that each fail on their own,
\* whatever the order in which the object's fields are iterated.
C30_Deterministic ==
    Returned1 =>
        \A n \in ElemIdx(input) :
            (n - 1) \in examined => \A r \in Outcomes(n) : SameOutcome(n, r)

\* what the code gives: the outcome is the same in every run unless one node
\* has two or more fields that fail on their own (level, children, markDefs);
\* then the error is that of whichever of them the iteration reaches first
C30_DeterministicButFirstFailure ==
    Returned1 =>
        \A n \in ElemIdx(input) :
            (n - 1) \in examined =>
                \/ \A r \in Outcomes(n) : SameOutcome(n, r)
                \/ /\ TypeValid(input.elems[n])
                   /\ Cardinality(FailingFields(n)) >= 2
                   /\ err # NoError
                   /\ \E k \in FailingFields(n) : err.Path = Field(NodePath(n), k)
                                                     \/ ErrUnder(Field(NodePath(n), k))

\* Decode has failed on a node that has an unparseable level and a children
\* that is no array
C30_ReachedTwoFailures ==
    /\ Returned1
    /\ \E n \in ElemIdx(input) :
          /\ (n - 1) \in examined
          /\ {"level", "children"} \subseteq FailingFields(n)
          /\ err = LevelErr(n)

-----------------------------------------------------------------------------
(* Properties of the unconditional checks *)

\* the diagnostics about top-level node ni: those at or below its path
AboutNode(ni) == {a \in 1..Len(errs) : errs[a].Path[1] = TopPath(ni)[1]}

\* C27: a top-level node with an empty Type gets exactly one diagnostic,
\* "missing _type" at path [i], under every option setting: no missing-key
\* diagnostic and no diagnostic for its children or markDefs; and the node
\* after it is validated as it is anywhere else.
C27_EmptyTypeSkipped ==
    Validated =>
        \A ni \in 0..(Len(doc.v) - 1) :
            doc.v[ni + 1].Type = <<>> =>
                /\ Cardinality(AboutNode(ni)) = 1
                /\ \A a \in AboutNode(ni) :
                      errs[a] = ValidationError(TopPath(ni), <<"missing _type">>, ni)
                /\ ni + 1 < Len(doc.v) =>
                      LET n == doc.v[ni + 2] IN
                      /\ CountAt(TopPath(ni + 1)) = NodeOwn(n, opts)
                      /\ \A j \in 0..(Len(n.Children.v) - 1) :
                            CountAt(ChildPath(ni + 1, j)) =
                                IF IsBlockNode(n) THEN ChildOwn(n, n.Children.v[j + 1], opts) ELSE 0

\* under RequireKeys a node with neither Type nor Key, followed by a block
\* without a key whose span has no text, has been validated: one diagnostic
\* for the first node, two for the second
C27_Witness ==
    /\ Validated
    /\ opts.RequireKeys
    /\ Len(doc.v) = 2
    /\ doc.v[1].Type = <<>> /\ doc.v[1].Key = <<>>
    /\ IsBlockNode(doc.v[2]) /\ doc.v[2].Key = <<>>
    /\ Len(errs) = 3
    /\ errs[1].Message = <<"missing _type">>
    /\ errs[2] = ValidationError(<<"[1]">>, <<"missing _key">>, 1)
    /\ errs[3].Path = <<"[1]", ".children", "[0]">>

\* a node with an empty Type whose only child has no Type either has been
\* validated with one diagnostic
C27_WitnessChild ==
    /\ Validated
    /\ Len(doc.v) = 1
    /\ doc.v[1].Type = <<>>
    /\ Len(doc.v[1].Children.v) = 1
    /\ doc.v[1].Children.v[1].Type = <<>>
    /\ Len(errs) = 1

\* 1 if the condition holds, else 0
One(b) == IF b THEN 1 ELSE 0

\* C28: the unconditional block checks: under every option setting, for every
\* top-level block the diagnostics hold exactly one "missing _type" per child
\* with an empty Type, one "span missing text" per child of Type "span"
\* without text, one "markDef missing _type" per markDef with an empty Type
\* and one "markDef missing _key" per markDef with an empty Key (two for a
\* markDef lacking both); a child with an empty Type gets nothing else; and a
\* node that is no block gets no diagnostic for a child or a markDef.
C28_BlockChecks ==
    Validated =>
        \A ni \in 0..(Len(doc.v) - 1) :
            LET n == doc.v[ni + 1] IN
            IF IsBlockNode(n)
            THEN /\ \A j \in 0..(Len(n.Children.v) - 1) :
                       LET c == n.Children.v[j + 1]
                           p == ChildPath(ni, j)
                       IN  /\ CountMsg(p, <<"missing _type">>) = One(c.Type = <<>>)
                           /\ CountMsg(p, <<"span missing text">>) =
                                  One(c.Type = <<"span">> /\ c.Text.nil)
                           /\ c.Type = <<>> => CountAt(p) = 1
                 /\ \A j \in 0..(Len(n.MarkDefs.v) - 1) :
                       LET md == n.MarkDefs.v[j + 1]
                           p == MarkDefPath(ni, j)
                       IN  /\ CountMsg(p, <<"markDef missing _type">>) = One(md.Type = <<>>)
                           /\ CountMsg(p, <<"markDef missing _key">>) = One(md.Key = <<>>)
                           /\ CountAt(p) = One(md.Type = <<>>) + One(md.Key = <<>>)
            ELSE \A a \in AboutNode(ni) : errs[a].Path = TopPath(ni)

\* with every option set, a block with a markDef that has neither Type nor
\* Key has been validated: two diagnostics at the markDef's path
C28_Witness ==
    /\ Validated
    /\ opts = [RequireKeys |-> TRUE, CheckMarkDefRefs |-> TRUE, AllowEmptyText |-> TRUE]
    /\ Len(doc.v) = 1
    /\ IsBlockNode(doc.v[1])
    /\ Len(doc.v[1].MarkDefs.v) >= 1
    /\ doc.v[1].MarkDefs.v[1].Type = <<>> /\ doc.v[1].MarkDefs.v[1].Key = <<>>
    /\ CountAt(MarkDefPath(0, 0)) = 2

\* a block whose child has no Type, no text and an unresolved mark has been
\* validated under CheckMarkDefRefs: one diagnostic for the child
C28_WitnessChild ==
    /\ Validated
    /\ opts.CheckMarkDefRefs
    /\ Len(doc.v) = 1
    /\ IsBlockNode(doc.v[1])
    /\ Len(doc.v[1].Children.v) = 1
    /\ doc.v[1].Children.v[1].Type = <<>>
    /\ doc.v[1].Children.v[1].Text.nil
    /\ doc.v[1].Children.v[1].Marks = Slice(<<<<"em">>, <<"em">>>>)
    /\ CountAt(ChildPath(0, 0)) = 1

\* a node of Type "image" with a span without text and a markDef without Type
\* has been validated without a diagnostic
C28_WitnessNoBlock ==
    /\ Validated
    /\ Len(doc.v) = 1
    /\ doc.v[1].Type = <<"image">>
    /\ Len(doc.v[1].MarkDefs.v) = 1
    /\ doc.v[1].MarkDefs.v[1].Type = <<>>
    /\ Len(doc.v[1].Children.v) = 1
    /\ doc.v[1].Children.v[1].Text.nil
    /\ errs = <<>>

-----------------------------------------------------------------------------
(* Properties of the copies *)

AlwaysTrue == \A k \in 1..Len(doc1.v) : fn[k].keep /\ ~fn[k].retype
Identity == \A k \in 1..Len(doc1.v) : fn[k] = "same"
\* the clones made so far: by Transform for its function, by Filter for its result
ClonePairs ==
    IF pc \in {"transform", "transformed"}
    THEN {<<calls[c].Node, doc1.v[c]>> : c \in 1..Len(calls)}
    ELSE IF pc \in {"filter", "filtered"} /\ AlwaysTrue
         THEN {<<res.v[c], doc1.v[c]>> : c \in 1..Len(res.v)}
         ELSE {}

\* C29: Clone is value-preserving: the clone has the same Type, Key, Style,
\* ListItem, Level, the same children, markDefs and marks of each span, absent
\* where the original's is absent and present but empty where the original's
\* is, and an equal Raw; hence Encode(Filter(doc, always true)) and
\* Encode(Transform(doc, identity)) equal Encode(doc) for every document.
C29_CloneValuePreserving ==
    /\ \A p \in ClonePairs : p[1] = p[2]
    /\ (pc = "filtered" /\ AlwaysTrue) => Encode(res) = Encode(doc1)
    /\ (pc = "transformed" /\ Identity) => Encode(res) = Encode(doc1)

\* the marks of a span, absent when empty
MarksOrAbsent(sp) == [sp EXCEPT !.Marks = IF Len(sp.Marks.v) = 0 THEN NilSlice ELSE sp.Marks]
\* what the code gives: the clone is the original except that a span's marks
\* that is present but empty is absent in the clone; the outputs of Encode are
\* equal for every document that is not nil and has no such span
C29_CloneButEmptyMarks ==
    /\ \A p \in ClonePairs :
          /\ p[1] = [p[2] EXCEPT !.Children =
                        [nil |-> p[2].Children.nil,
                         v |-> [j \in 1..Len(p[2].Children.v) |-> MarksOrAbsent(p[2].Children.v[j])]]]
    /\ ((pc = "filtered" /\ AlwaysTrue) \/ (pc = "transformed" /\ Identity)) =>
          \/ Encode(res) = Encode(doc1)
          \/ doc1.nil /\ res = Slice(<<>>)
          \/ \E n \in 1..Len(doc1.v) : \E j \in 1..Len(doc1.v[n].Children.v) :
                doc1.v[n].Children.v[j].Marks = Slice(<<>>)

\* Filter with the predicate that is always true has returned the copy of the
\* decoded block, equal to the original
C29_ReachedEqual ==
    /\ pc = "filtered"
    /\ AlwaysTrue
    /\ doc1.v = <<TravDecodedNode>>
    /\ res.v = doc1.v

-----------------------------------------------------------------------------
(* Properties of the independence of copies *)

\* C21: copies are independent of their source: after Clone or Filter, a
\* write through the copy (to Key, to the value behind Style, ListItem or
\* Level, an appended child, a child's field, Text, marks or Raw, a markDef or
\* its Raw, a Raw entry or a map or slice nested in Raw at any depth) leaves
\* the original node and Document as they were, and a write through the
\* original leaves the copy as it was.
C21_CopiesIndependent ==
    pc \in {"cloned", "filtered"} =>
        /\ LoadDocument(heap, refs.doc) = doc
        /\ LoadDocument(heap, refs.copy) = res

\* after Clone of the only node of a Document the program has written to a
\* slice nested in the Raw of the copy: the copy differs from the original
C21_Witness ==
    /\ pc = "cloned"
    /\ Len(doc1.v) = 1
    /\ Len(calls) = 1
    /\ calls[1].side = "copy" /\ calls[1].w.kind = "list"
    /\ res # doc
    /\ doc = doc1

\* after Filter has kept both nodes the program has appended a child to a
\* node of the source
C21_WitnessFilter ==
    /\ pc = "filtered"
    /\ Len(res.v) = 2
    /\ Len(calls) = 1
    /\ calls[1].side = "original" /\ calls[1].w.kind = "AddSpan"
    /\ doc # doc1

\* C22: Filter and Transform hand caller-supplied logic only independent deep
\* copies: whatever the Filter predicate or the Transform function writes to
\* the node it receives, the source Document is unchanged when the call
\* returns.
C22_CallbacksGetCopies ==
    (pc \in {"filtered", "transformed"} /\ calls = <<>>) =>
        LoadDocument(heap, refs.doc) = doc1

\* Transform hands fn a copy: at every step of Transform and when it returns
\* the source Document reads as it did when Transform was called
C22_TransformGetsCopies ==
    pc \in {"transform", "transformed"} => LoadDocument(heap, refs.doc) = doc1

\* Transform has returned a result whose only node was written to by fn, and
\* the source is as it was
C22_ReachedTransformed ==
    /\ pc = "transformed"
    /\ Len(res.v) = 1
    /\ Len(doc1.v) = 1
    /\ res.v[1] # Clone(doc1.v[1])
    /\ doc = doc1

\* what a call returns when it runs alone: the copies of the selected nodes,
\* in order
Alone(kind, f) ==
    IF kind = "Filter"
    THEN Slice(Selection(Len(doc.v), f, [k \in 1..Len(doc.v) |-> Clone(doc.v[k])]))
    ELSE Slice(Selection(Len(doc.v), [k \in 1..Len(doc.v) |-> f[k] # "nil"],
                         [k \in 1..Len(doc.v) |->
                             IF f[k] = "restyled" THEN Restyled(Clone(doc.v[k])) ELSE Clone(doc.v[k])]))

\* C23: concurrent Filter and Transform calls on the same source Document are
\* safe: with callbacks that write to no shared state, under every
\* interleaving of the calls no step writes to a cell of the source Document,
\* the source reads as before at the end, and each call returns the result it
\* returns when it runs alone.
C23_ConcurrentCallsSafe ==
    /\ SubSeq(heap, 1, refs.size) = StoreDocument(<<>>, doc).h
    /\ LoadDocument(heap, refs.doc) = doc
    /\ \A p \in Callers : pc[p] = "done" => res[p] = Alone(calls[p], fn[p])

\* a Filter that keeps both nodes and a Transform that sets the Style of the
\* second are both in their second iteration
C23_Witness ==
    /\ Len(doc.v) = 2
    /\ calls[1] = "Filter" /\ pc[1] = "append" /\ i[1] = 1 /\ fn[1] = <<TRUE, TRUE>>
    /\ calls[2] = "Transform" /\ pc[2] = "fn" /\ i[2] = 1 /\ fn[2] = <<"same", "restyled">>

\* both calls have returned, each its own result
C23_WitnessDone ==
    /\ Len(doc.v) = 2
    /\ calls[1] = "Filter" /\ pc[1] = "done" /\ Len(res[1].v) = 2
    /\ calls[2] = "Transform" /\ pc[2] = "done" /\ Len(res[2].v) = 1
    /\ fn[2][2] = "restyled"
    /\ res[2].v[1] # res[1].v[2]

====
